---- MODULE Spec2Model ----
(***************************************************************************)
(* Model of the router's agent directory (HostAgent's process-wide         *)
(* registries), the management surface that mutates it under _agent_lock,  *)
(* the startup registration task, and the remote connection's send.        *)
(***************************************************************************)
EXTENDS Integers, Sequences, FiniteSets, TLC

(* ------------------------------ bounds --------------------------------- *)
MaxOps == 3

Addrs == {"a1", "a2"}
Names == {"n1", "n2"}
Descs == {"d1", "d2"}
Procs == {"r1", "r2"}
Tasks == {"t1"}

NoOne == "none"
NoAddress == "no_address"

(* AgentCard: the fields of a card that the router reads. *)
CardSet == [name : Names, url : Addrs, description : Descs, streaming : BOOLEAN]

(* Cards a remote may serve from its well-known endpoint: any name at any  *)
(* url, and one name under two descriptions.                               *)
FetchCards ==
    {c \in CardSet : /\ c.streaming = (c.name = "n1")
                     /\ (c.description = "d2" => c.name = "n1" /\ c.url = "a1")}

(* Address lists that HostAgent.__init__ leaves behind (no duplicates). *)
StartupAddresses ==
    ({<<>>} \cup {<<a>> : a \in Addrs} \cup {<<a, b>> : a, b \in Addrs})
        \ {<<a, a>> : a \in Addrs}

(* --------------------------- python containers ------------------------- *)
Range(s) == {s[i] : i \in DOMAIN s}

(* list.remove(x): drops the first occurrence of x. *)
ListRemove(s, x) ==
    LET i == CHOOSE j \in DOMAIN s : s[j] = x /\ \A k \in 1..(j - 1) : s[k] # x
    IN  [k \in 1..(Len(s) - 1) |-> IF k < i THEN s[k] ELSE s[k + 1]]

Count(s, x) == Cardinality({i \in DOMAIN s : s[i] = x})

(* A dict is kept as its items in insertion order: <<key, value>> pairs. *)
DictKeys(d) == {d[i][1] : i \in DOMAIN d}

DictGet(d, k) == d[CHOOSE i \in DOMAIN d : d[i][1] = k][2]

(* d[k] = v : an existing key keeps its position, a new key goes last. *)
DictSetAppend(d, k, v) == Append(d, <<k, v>>)

DictSet(d, k, v) ==
    IF k \in DictKeys(d)
    THEN [i \in DOMAIN d |-> IF d[i][1] = k THEN <<k, v>> ELSE d[i]]
    ELSE Append(d, <<k, v>>)

(* d.pop(k, None) *)
DictPop(d, k) == SelectSeq(d, LAMBDA e : e[1] # k)

KeyCount(d, k) == Cardinality({i \in DOMAIN d : d[i][1] = k})

(* RemoteAgentConnections(client, card): the connection owns its card. *)
RemoteAgentConnections(card) == [card |-> card]

(* ------------------------------- state --------------------------------- *)
VARIABLES
    remote_agent_connections,  \* HostAgent._global_remote_agent_connections
    cards,                     \* HostAgent._global_cards
    remote_agent_addresses,    \* HostAgent._global_addresses
    global_agents,             \* HostAgent._global_agents (one entry per line)
    agent_lock,                \* holder of _agent_lock, or NoOne
    lock_waiters,              \* requests queued on _agent_lock, oldest first
    pc,                        \* position of each management request
    op,                        \* operation of each management request
    arg,                       \* address (add) or agent name (remove)
    response,                  \* HTTP response of a finished request
    ops_started,               \* number of management requests received
    task_pc,                   \* position of each register_agent_cards task
    task_idx,                  \* list-iterator index of each task
    task_address,              \* address a task is resolving
    state,                     \* tool_context.state of the conversation
    actions,                   \* tool_context.actions of the current tool call
    del_pc,                    \* position of HostAgent.send_message
    del_agent,                 \* its agent_name argument
    del_result,                \* its return value
    outbound,                  \* the Message it built
    del_log,                   \* kinds of the tool results returned so far
    task_agent,                \* the agent that returned the task state.task_id names
    silent,                    \* names of the remotes that never answer
    final_event,               \* an event of run_async, by its content parts
    stream_item,               \* what stream yields for it
    contents,                  \* llm_request.contents as the runner built it
    llm_contents,              \* the contents the model is called with
    hist_pc,                   \* position of the model call
    session_cap,               \* max_recent_events_for_llm of the session service
    session_config,            \* config argument of get_session
    store_config,              \* config passed to the underlying get_session
    session_pc,                \* position of get_session
    orchestrator,              \* whose stream runs: "router" or "agent"
    run_events,                \* events the runner yields in this turn
    run_idx,                   \* events taken from the runner
    yielded,                   \* items the stream has yielded
    has_task,                  \* context.current_task is set
    published,                 \* what execute put on the event queue
    exec_pc,                   \* position of the turn
    turn_fault,                \* what went wrong in the turn, "none" if nothing
    cancel_error,              \* the error cancel raised, "none" before it is called
    send_pc,                   \* position of RemoteAgentConnections.send_message
    send_caller,               \* "host" (a delegate call) or "direct"
    send_card,                 \* self.card of the connection
    send_callback,             \* its task_callback argument
    stream,                    \* events the remote emits on the stream
    consumed,                  \* events taken from the stream
    send_task,                 \* the local variable task
    send_result,               \* its return value
    callback_log,              \* events handed to task_callback, in order
    request_log,               \* requests issued to the remote by this call
    calls_made                 \* number of calls started

dirvars == <<remote_agent_connections, cards, remote_agent_addresses, global_agents>>
lockvars == <<agent_lock, lock_waiters>>
reqvars == <<pc, op, arg, response, ops_started>>
taskvars == <<task_pc, task_idx, task_address>>
convvars == <<state, actions>>
delvars == <<del_pc, del_agent, del_result, outbound, del_log, task_agent>>
itemvars == <<final_event, stream_item>>
envvars == <<silent, itemvars>>
histvars == <<contents, llm_contents, hist_pc>>
sessvars == <<session_cap, session_config, store_config, session_pc>>
turnvars == <<orchestrator, run_events, run_idx, yielded, has_task, published, exec_pc,
              turn_fault, cancel_error>>
ctxvars == <<histvars, sessvars, turnvars>>
sendvars == <<send_pc, send_caller, send_card, send_callback, stream, consumed,
              send_task, send_result, callback_log, request_log, calls_made>>
routevars == <<convvars, delvars, sendvars, envvars, ctxvars>>
mgmtvars == <<lockvars, reqvars, taskvars, envvars, ctxvars>>
vars == <<dirvars, lockvars, reqvars, taskvars, routevars>>

(* The directory as one value, for the operations that transform it. *)
Directory ==
    [connections |-> remote_agent_connections,
     cards       |-> cards,
     addresses   |-> remote_agent_addresses,
     agents      |-> global_agents]

SetDirectory(d) ==
    /\ remote_agent_connections' = d.connections
    /\ cards' = d.cards
    /\ remote_agent_addresses' = d.addresses
    /\ global_agents' = d.agents

(* ---------------------------- HostAgent -------------------------------- *)
(* list_remote_agents: empty when there is no connection, else one         *)
(* {name, description} per card, in the cards dict's order.                *)
list_remote_agents(d) ==
    IF d.connections = <<>>
    THEN <<>>
    ELSE [i \in DOMAIN d.cards |->
            [name |-> d.cards[i][2].name,
             description |-> d.cards[i][2].description]]

(* register_agent_card(card) *)
register_agent_card(d, card) ==
    LET d1 == [d EXCEPT
                 !.connections = DictSet(d.connections, card.name,
                                         RemoteAgentConnections(card)),
                 !.cards = DictSet(d.cards, card.name, card)]
    IN  [d1 EXCEPT !.agents = list_remote_agents(d1)]

(* remove_agent_card(agent_name), for a registered name. *)
remove_agent_card(d, agent_name) ==
    LET connection == DictGet(d.connections, agent_name)
        agent_url == connection.card.url
        d1 == [d EXCEPT
                 !.connections = DictPop(d.connections, agent_name),
                 !.cards = DictPop(d.cards, agent_name),
                 !.addresses = IF agent_url \in Range(d.addresses)
                               THEN ListRemove(d.addresses, agent_url)
                               ELSE d.addresses]
    IN  [d1 EXCEPT !.agents = list_remote_agents(d1)]

(* ----------------------- management surface --------------------------- *)
NoResponse == [status |-> 0, detail |-> "", name |-> NoOne, body |-> <<>>]

Reply(status, detail, name, body) ==
    [status |-> status, detail |-> detail, name |-> name, body |-> body]

AlreadyRegistered == Reply(400, "Agent address already registered", NoOne, <<>>)
MissingAddress == Reply(400, "Missing address field", NoOne, <<>>)
InvalidRequest == Reply(400, "Invalid request", NoOne, <<>>)
CardResolutionFailed == Reply(502, "card fetch failed", NoOne, <<>>)
NotFound == Reply(404, "Agent not found", NoOne, <<>>)
AgentAdded(name) == Reply(201, "Agent added", name, <<>>)
AgentRemoved(name) == Reply(200, "Agent removed", name, <<>>)
AgentList(body) == Reply(200, "list", NoOne, body)

Finish(p, r) ==
    /\ pc' = [pc EXCEPT ![p] = "done"]
    /\ response' = [response EXCEPT ![p] = r]

(* asyncio.Lock: acquired at once when free with nobody queued. *)
LockFreeAlways == TRUE

LockFree == agent_lock = NoOne /\ lock_waiters = <<>>

(* add_agent: the duplicate check made on entering the lock. *)
IsDuplicateNever(address) == FALSE

IsDuplicate(address) == address \in Range(remote_agent_addresses)

(* An add_agent that returns already-registered without leaving the lock. *)
AddLockedKeepsLock(p, address) ==
    IF IsDuplicate(address)
    THEN /\ Finish(p, AlreadyRegistered)
         /\ agent_lock' = p
    ELSE /\ pc' = [pc EXCEPT ![p] = "add_fetch"]
         /\ agent_lock' = p
         /\ UNCHANGED response

(* add_agent inside the lock, up to the card fetch. *)
AddLocked(p, address) ==
    IF IsDuplicate(address)
    THEN /\ Finish(p, AlreadyRegistered)
         /\ agent_lock' = NoOne
    ELSE /\ pc' = [pc EXCEPT ![p] = "add_fetch"]
         /\ agent_lock' = p
         /\ UNCHANGED response

(* remove_agent inside the lock. *)
RemoveLockedNoCheck(p, agent_name) ==
    /\ agent_lock' = NoOne
    /\ Finish(p, AgentRemoved(agent_name))
    /\ IF agent_name \notin DictKeys(remote_agent_connections)
       THEN SetDirectory([Directory EXCEPT !.agents = list_remote_agents(Directory)])
       ELSE SetDirectory(remove_agent_card(Directory, agent_name))

RemoveLockedCardsOnly(p, agent_name) ==
    /\ agent_lock' = NoOne
    /\ IF agent_name \notin DictKeys(remote_agent_connections)
       THEN /\ Finish(p, NotFound)
            /\ UNCHANGED dirvars
       ELSE /\ Finish(p, AgentRemoved(agent_name))
            /\ SetDirectory([Directory EXCEPT !.cards = DictPop(cards, agent_name)])

RemoveLocked(p, agent_name) ==
    /\ agent_lock' = NoOne
    /\ IF agent_name \notin DictKeys(remote_agent_connections)
       THEN /\ Finish(p, NotFound)
            /\ UNCHANGED dirvars
       ELSE /\ Finish(p, AgentRemoved(agent_name))
            /\ SetDirectory(remove_agent_card(Directory, agent_name))

Receive(p, operation, argument) ==
    /\ pc[p] = "idle"
    /\ ops_started < MaxOps
    /\ ops_started' = ops_started + 1
    /\ op' = [op EXCEPT ![p] = operation]
    /\ arg' = [arg EXCEPT ![p] = argument]

(* POST without an address. *)
AddMissingAddress(p) ==
    /\ Receive(p, "add", NoAddress)
    /\ Finish(p, MissingAddress)
    /\ UNCHANGED <<dirvars, lockvars, taskvars, routevars>>

(* POST whose body is not JSON: the outer except clause. *)
AddInvalidBody(p) ==
    /\ Receive(p, "add", NoAddress)
    /\ Finish(p, InvalidRequest)
    /\ UNCHANGED <<dirvars, lockvars, taskvars, routevars>>

(* POST {address}: the lock is free. *)
AddAgent(p, address) ==
    /\ Receive(p, "add", address)
    /\ LockFree
    /\ AddLocked(p, address)
    /\ UNCHANGED <<dirvars, lock_waiters, taskvars, routevars>>

(* DELETE name: the lock is free. *)
RemoveAgent(p, agent_name) ==
    /\ Receive(p, "remove", agent_name)
    /\ LockFree
    /\ RemoveLocked(p, agent_name)
    /\ UNCHANGED <<lock_waiters, taskvars, routevars>>

(* POST or DELETE while the lock is held or others are queued. *)
WaitForLock(p, operation, argument) ==
    /\ Receive(p, operation, argument)
    /\ ~LockFree
    /\ pc' = [pc EXCEPT ![p] = "wait"]
    /\ lock_waiters' = Append(lock_waiters, p)
    /\ UNCHANGED <<dirvars, agent_lock, response, taskvars, routevars>>

(* The oldest queued request gets the released lock. *)
AddAgentWake(p) ==
    /\ pc[p] = "wait" /\ op[p] = "add"
    /\ agent_lock = NoOne
    /\ lock_waiters # <<>> /\ Head(lock_waiters) = p
    /\ lock_waiters' = Tail(lock_waiters)
    /\ AddLocked(p, arg[p])
    /\ UNCHANGED <<dirvars, op, arg, ops_started, taskvars, routevars>>

RemoveAgentWake(p) ==
    /\ pc[p] = "wait" /\ op[p] = "remove"
    /\ agent_lock = NoOne
    /\ lock_waiters # <<>> /\ Head(lock_waiters) = p
    /\ lock_waiters' = Tail(lock_waiters)
    /\ RemoveLocked(p, arg[p])
    /\ UNCHANGED <<op, arg, ops_started, taskvars, routevars>>

(* What add_agent does to the directory once the card has arrived. *)
AddToDirectory(d, address, card) ==
    register_agent_card([d EXCEPT !.addresses = Append(d.addresses, address)], card)

(* add_agent: the card arrives. *)
AddAgentFetched(p, card) ==
    /\ pc[p] = "add_fetch"
    /\ SetDirectory(AddToDirectory(Directory, arg[p], card))
    /\ Finish(p, AgentAdded(card.name))
    /\ agent_lock' = NoOne
    /\ UNCHANGED <<lock_waiters, op, arg, ops_started, taskvars, routevars>>

(* What a failed card fetch leaves of the directory. *)
AfterFetchFailureKeepsAddress(d, address) ==
    [d EXCEPT !.addresses = Append(d.addresses, address)]

AfterFetchFailure(d, address) == d

(* add_agent: the card fetch raises. *)
AddAgentFetchFailed(p) ==
    /\ pc[p] = "add_fetch"
    /\ SetDirectory(AfterFetchFailure(Directory, arg[p]))
    /\ Finish(p, CardResolutionFailed)
    /\ agent_lock' = NoOne
    /\ UNCHANGED <<lock_waiters, op, arg, ops_started, taskvars, routevars>>

(* GET: list_agents, no lock. *)
ListAgents(p) ==
    /\ Receive(p, "list", NoOne)
    /\ Finish(p, AgentList(list_remote_agents(Directory)))
    /\ UNCHANGED <<dirvars, lockvars, taskvars, routevars>>

(* The response is delivered; the slot serves the next request. *)
Respond(p) ==
    /\ pc[p] = "done"
    /\ pc' = [pc EXCEPT ![p] = "idle"]
    /\ op' = [op EXCEPT ![p] = "none"]
    /\ arg' = [arg EXCEPT ![p] = NoOne]
    /\ response' = [response EXCEPT ![p] = NoResponse]
    /\ UNCHANGED <<dirvars, lockvars, ops_started, taskvars, routevars>>

(* ------------------- startup: register_agent_cards -------------------- *)
(* The body of one loop iteration once the card is there: no summary yet.  *)
RegisterFetched(d, card) ==
    [d EXCEPT
       !.connections = DictSet(d.connections, card.name, RemoteAgentConnections(card)),
       !.cards = DictSet(d.cards, card.name, card)]

(* The for loop over the live address list, from iterator index i: either  *)
(* the next address is taken and its card awaited, or the loop ends and    *)
(* the summary is rebuilt.                                                 *)
Iterate(t, i, d) ==
    IF i < Len(d.addresses)
    THEN /\ task_pc' = [task_pc EXCEPT ![t] = "fetch"]
         /\ task_idx' = [task_idx EXCEPT ![t] = i + 1]
         /\ task_address' = [task_address EXCEPT ![t] = d.addresses[i + 1]]
         /\ SetDirectory(d)
    ELSE /\ task_pc' = [task_pc EXCEPT ![t] = "done"]
         /\ UNCHANGED <<task_idx, task_address>>
         /\ SetDirectory([d EXCEPT !.agents = list_remote_agents(d)])

(* The task created by HostAgent.__init__ gets to run. *)
TaskStart(t) ==
    /\ task_pc[t] = "pending"
    /\ Iterate(t, 0, Directory)
    /\ UNCHANGED <<lockvars, reqvars, routevars>>

(* The awaited card arrives. *)
TaskFetched(t, card) ==
    /\ task_pc[t] = "fetch"
    /\ Iterate(t, task_idx[t], RegisterFetched(Directory, card))
    /\ UNCHANGED <<lockvars, reqvars, routevars>>

(* The card fetch raises: the task ends with the exception. *)
TaskFetchFailed(t) ==
    /\ task_pc[t] = "fetch"
    /\ task_pc' = [task_pc EXCEPT ![t] = "failed"]
    /\ UNCHANGED <<task_idx, task_address, dirvars, lockvars, reqvars, routevars>>

(* ------------------------- values on the wire -------------------------- *)
MaxEvents == 3
MaxCalls == 2

Absent == "absent"
UnknownName == "n0"
TaskIds == {"t1", "t2"}
TaskStates == {"submitted", "working", "input-required", "completed",
               "canceled", "failed", "unknown"}

NoneValue == [kind |-> "none"]
ErrorValue == [kind |-> "error"]

(* Content parts by kind; "badfile" is a file part whose bytes do not decode. *)
PartLists == {<<>>, <<"text">>, <<"data", "text">>, <<"file">>, <<"file", "badfile">>}
(* task.status.message: None, or a Message with parts. *)
NoMessage == [present |-> FALSE, parts |-> <<>>]
StatusMessage(parts) == [present |-> TRUE, parts |-> parts]
StatusMessages == {NoMessage, StatusMessage(<<"text">>), StatusMessage(<<"badfile">>)}
ArtifactLists == {<<>>, <<<<"data">>>>, <<<<"text">>, <<"file">>>>}

MessageValues == [kind : {"message"}, parts : PartLists]
TaskValues ==
    [kind : {"task"}, id : TaskIds, contextId : {"c1", Absent}, state : TaskStates,
     message : StatusMessages, artifacts : ArtifactLists]

(* What one unary request can be answered with. *)
UnaryResponses == {ErrorValue} \cup MessageValues \cup TaskValues

(* Stream events: an error envelope, a Message, a status update (the only  *)
(* event type with a final flag), or a Task or artifact update ("task").   *)
StreamEvents ==
    [kind : {"error", "message", "task"}, final : {FALSE}]
        \cup [kind : {"status"}, final : BOOLEAN]

RECURSIVE SeqsUpTo(_, _)
SeqsUpTo(S, n) ==
    IF n = 0 THEN {<<>>}
    ELSE LET shorter == SeqsUpTo(S, n - 1)
         IN  shorter \cup {Append(q, e) : q \in {x \in shorter : Len(x) = n - 1}, e \in S}

Streams == SeqsUpTo(StreamEvents, MaxEvents)

(* task_callback arguments: None, router_agent.task_callback (its body is  *)
(* pass, so it returns None), or a callback that returns the task          *)
(* snapshot it keeps for the event.                                        *)
Callbacks == {"none", "pass", "snapshot"}

Snapshot(i) == [kind |-> "task", seq |-> i]

task_callback(cb, i) == IF cb = "snapshot" THEN Snapshot(i) ELSE NoneValue

(* hasattr(event, 'final') and event.final *)
IsFinal(event) == event.kind = "status" /\ event.final

(* ------------------ RemoteAgentConnections.send_message ---------------- *)
(* if streaming and self.card.capabilities.streaming                       *)
UseStreaming(streaming, card) == streaming /\ card.streaming

(* The call starts: the branch is taken and the request goes out. *)
BeginSend(caller, card, cb, streaming, events) ==
    /\ send_pc = "idle"
    /\ calls_made < MaxCalls
    /\ calls_made' = calls_made + 1
    /\ send_caller' = caller
    /\ send_card' = card
    /\ send_callback' = cb
    /\ send_task' = NoneValue
    /\ send_result' = NoneValue
    /\ consumed' = 0
    /\ callback_log' = <<>>
    /\ IF UseStreaming(streaming, card)
       THEN /\ send_pc' = "stream"
            /\ stream' = events
            /\ request_log' = <<"stream">>
       ELSE /\ send_pc' = "unary"
            /\ stream' = <<>>
            /\ request_log' = <<"unary">>

Return(value) ==
    /\ send_pc' = "returned"
    /\ send_result' = value

StreamEventReportsMessage ==
    /\ send_pc = "stream"
    /\ send_card.name \notin silent
    /\ consumed < Len(stream)
    /\ consumed' = consumed + 1
    /\ LET event == stream[consumed + 1]
           called == send_callback # "none"
           task == IF called THEN task_callback(send_callback, consumed + 1)
                   ELSE send_task
       IN  IF event.kind = "error"
           THEN Return(ErrorValue) /\ UNCHANGED <<send_task, callback_log>>
           ELSE IF event.kind = "message"
           THEN /\ Return([kind |-> "message", seq |-> consumed + 1])
                /\ callback_log' = IF called THEN Append(callback_log, consumed + 1)
                                   ELSE callback_log
                /\ UNCHANGED send_task
           ELSE /\ send_task' = task
                /\ callback_log' = IF called THEN Append(callback_log, consumed + 1)
                                   ELSE callback_log
                /\ IF IsFinal(event)
                   THEN Return(task)
                   ELSE UNCHANGED <<send_pc, send_result>>
    /\ UNCHANGED <<dirvars, mgmtvars, convvars, delvars, send_caller, send_card,
                   send_callback, stream, request_log, calls_made>>

(* One iteration of the async for over the stream. *)
StreamEvent ==
    /\ send_pc = "stream"
    /\ send_card.name \notin silent
    /\ consumed < Len(stream)
    /\ consumed' = consumed + 1
    /\ LET event == stream[consumed + 1]
           called == send_callback # "none"
           task == IF called THEN task_callback(send_callback, consumed + 1)
                   ELSE send_task
       IN  IF event.kind = "error"
           THEN Return(ErrorValue) /\ UNCHANGED <<send_task, callback_log>>
           ELSE IF event.kind = "message"
           THEN Return([kind |-> "message", seq |-> consumed + 1])
                /\ UNCHANGED <<send_task, callback_log>>
           ELSE /\ send_task' = task
                /\ callback_log' = IF called THEN Append(callback_log, consumed + 1)
                                   ELSE callback_log
                /\ IF IsFinal(event)
                   THEN Return(task)
                   ELSE UNCHANGED <<send_pc, send_result>>
    /\ UNCHANGED <<dirvars, mgmtvars, convvars, delvars, send_caller, send_card,
                   send_callback, stream, request_log, calls_made>>

(* The stream ends without a final event: return task. *)
StreamEnd ==
    /\ send_pc = "stream"
    /\ send_card.name \notin silent
    /\ consumed = Len(stream)
    /\ Return(send_task)
    /\ UNCHANGED <<dirvars, mgmtvars, convvars, delvars, send_caller, send_card,
                   send_callback, stream, consumed, send_task, callback_log,
                   request_log, calls_made>>

(* The unary request is answered. *)
UnaryResponse(r) ==
    /\ send_pc = "unary"
    /\ send_card.name \notin silent
    /\ Return(r)
    /\ callback_log' = IF r.kind = "task" /\ send_callback # "none"
                       THEN Append(callback_log, 1)
                       ELSE callback_log
    /\ UNCHANGED <<dirvars, mgmtvars, convvars, delvars, send_caller, send_card,
                   send_callback, stream, consumed, send_task, request_log, calls_made>>

(* The await raises: nothing in send_message catches it. *)
RaiseFromSend ==
    /\ send_pc \in {"stream", "unary"}
    /\ send_pc' = "raised"
    /\ UNCHANGED <<dirvars, mgmtvars, convvars, delvars, send_caller, send_card,
                   send_callback, stream, consumed, send_task, send_result,
                   callback_log, request_log, calls_made>>

(* A request without a timeout: only a transport failure raises, and a     *)
(* remote that stays silent is waited for.                                 *)
SendRaisesNoTimeout ==
    /\ send_card.name \notin silent
    /\ RaiseFromSend

(* A send that answers its first failure by issuing the request again. *)
SendRaisesRetries ==
    IF send_pc \in {"stream", "unary"} /\ Len(request_log) < 2
    THEN /\ request_log' = Append(request_log, send_pc)
         /\ UNCHANGED <<dirvars, mgmtvars, convvars, delvars, send_pc, send_caller,
                        send_card, send_callback, stream, consumed, send_task,
                        send_result, callback_log, calls_made>>
    ELSE RaiseFromSend

(* The transport fails, or the request's timeout expires on a remote that  *)
(* has not answered: the exception propagates to the caller.               *)
SendRaises == RaiseFromSend

(* The call is over: its locals are gone. *)
EndSend ==
    /\ send_pc' = "idle"
    /\ stream' = <<>>
    /\ consumed' = 0
    /\ send_task' = NoneValue
    /\ send_result' = NoneValue
    /\ callback_log' = <<>>
    /\ request_log' = <<>>
    /\ UNCHANGED <<send_caller, send_card, send_callback, calls_made>>

(* A caller other than HostAgent calls send_message on a connection. *)
DirectSend(card, cb, streaming) ==
    /\ del_pc = "idle"
    /\ send_pc = "idle"
    /\ calls_made < MaxCalls
    /\ \E events \in (IF UseStreaming(streaming, card) THEN Streams ELSE {<<>>}) :
          BeginSend("direct", card, cb, streaming, events)
    /\ UNCHANGED <<dirvars, mgmtvars, convvars, delvars>>

(* That caller has the result (or the exception). *)
DirectReturn ==
    /\ send_caller = "direct"
    /\ send_pc \in {"returned", "raised"}
    /\ EndSend
    /\ UNCHANGED <<dirvars, mgmtvars, convvars, delvars>>

(* ----------------------- HostAgent.send_message ------------------------ *)
(* self.task_callback: RouterAgent builds its HostAgent without one. *)
HostTaskCallback == "none"

(* The streaming argument HostAgent.send_message passes to the connection. *)
HostStreaming(card) == FALSE

NoActions == [skip_summarization |-> FALSE, escalate |-> FALSE]
Escalated == [skip_summarization |-> TRUE, escalate |-> TRUE]

EmptyState ==
    [agent |-> Absent, task_id |-> Absent, context_id |-> Absent,
     session_active |-> Absent, message_id |-> Absent]

(* No except clause: the exception leaves send_message. *)
ErrorReturnPropagates(why) == [kind |-> "raised", why |-> why]

(* The error value returned from the except clause: the traceback text. *)
ErrorReturn(why) == [kind |-> "error", why |-> why]
ContentReturn(parts) == [kind |-> "content", parts |-> parts]

(* convert_part: text and data pass through, a file is saved as an        *)
(* artifact, replaced by its reference and sets both flags; decoding a     *)
(* bad file raises.                                                        *)
convert_part(part) ==
    IF part = "file" THEN "artifact-file-id" ELSE part

RECURSIVE convert_parts(_, _)
convert_parts(parts, acc) ==
    IF parts = <<>> THEN acc
    ELSE IF ~acc.ok THEN acc
    ELSE IF Head(parts) = "badfile"
    THEN [acc EXCEPT !.ok = FALSE]
    ELSE convert_parts(Tail(parts),
             [ok |-> TRUE,
              values |-> Append(acc.values, convert_part(Head(parts))),
              actions |-> IF Head(parts) = "file" THEN Escalated ELSE acc.actions])

RECURSIVE convert_artifacts(_, _)
convert_artifacts(artifacts, acc) ==
    IF artifacts = <<>> \/ ~acc.ok THEN acc
    ELSE convert_artifacts(Tail(artifacts), convert_parts(Head(artifacts), acc))

(* A state update that stores the task's context id whether it has one or not. *)
StateAfterTaskOverwritesContext(st, task) ==
    [st EXCEPT
       !.session_active = task.state \notin {"completed", "canceled", "failed", "unknown"},
       !.context_id = task.contextId,
       !.task_id = task.id]

(* state after a Task came back: session_active, context_id, task_id. *)
InactiveStates == {"completed", "canceled", "failed", "unknown"}

StateAfterTask(st, task) ==
    [st EXCEPT
       !.session_active = task.state \notin InactiveStates,
       !.context_id = IF task.contextId # Absent THEN task.contextId ELSE @,
       !.task_id = task.id]

(* check_state: the agent root_instruction names as the current one.      *)
(* session_active is written together with task_id, so it is a key of the  *)
(* state exactly when task_id is.                                          *)
NoCurrentAgent == "None"

check_state(st) ==
    IF /\ st.context_id # Absent
       /\ st.task_id # Absent
       /\ st.session_active
       /\ st.agent # Absent
    THEN st.agent
    ELSE NoCurrentAgent

(* agent_name in self.remote_agent_connections: the dict all HostAgent     *)
(* instances share, read when the tool is called.                          *)
HasConnection(agent_name) == agent_name \in DictKeys(remote_agent_connections)

(* A request that carries nothing of the conversation forward. *)
OutboundWithoutIds(st) ==
    [messageId |-> IF st.message_id # Absent THEN st.message_id ELSE "fresh",
     contextId |-> Absent,
     taskId |-> Absent]

(* The Message of the request. *)
Outbound(st) ==
    [messageId |-> IF st.message_id # Absent THEN st.message_id ELSE "fresh",
     contextId |-> st.context_id,
     taskId |-> st.task_id]

DelegateBindsFirst(agent_name) ==
    /\ del_pc = "idle"
    /\ send_pc = "idle"
    /\ calls_made < MaxCalls
    /\ del_agent' = agent_name
    /\ actions' = NoActions
    /\ IF ~HasConnection(agent_name)
       THEN /\ del_pc' = "returned"
            /\ del_result' = ErrorReturn("agent not found")
            /\ del_log' = Append(del_log, "error")
            /\ calls_made' = calls_made + 1
            /\ state' = [state EXCEPT !.agent = agent_name]
            /\ UNCHANGED <<outbound, send_pc, send_caller, send_card,
                           send_callback, stream, consumed, send_task, send_result,
                           callback_log, request_log>>
       ELSE LET client == DictGet(remote_agent_connections, agent_name)
            IN  /\ state' = [state EXCEPT !.agent = agent_name]
                /\ outbound' = Outbound(state)
                /\ del_pc' = "sending"
                /\ del_result' = NoneValue
                /\ UNCHANGED del_log
                /\ BeginSend("host", client.card, HostTaskCallback,
                             HostStreaming(client.card), <<>>)
    /\ UNCHANGED <<dirvars, mgmtvars, task_agent>>

(* The tool is called: resolve the agent, bind it, build the request and   *)
(* call the connection; an unknown agent ends in the except clause.        *)
Delegate(agent_name) ==
    /\ del_pc = "idle"
    /\ send_pc = "idle"
    /\ calls_made < MaxCalls
    /\ del_agent' = agent_name
    /\ actions' = NoActions
    /\ IF ~HasConnection(agent_name)
       THEN /\ del_pc' = "returned"
            /\ del_result' = ErrorReturn("agent not found")
            /\ del_log' = Append(del_log, "error")
            /\ calls_made' = calls_made + 1
            /\ UNCHANGED <<state, outbound, send_pc, send_caller, send_card,
                           send_callback, stream, consumed, send_task, send_result,
                           callback_log, request_log>>
       ELSE LET client == DictGet(remote_agent_connections, agent_name)
            IN  /\ state' = [state EXCEPT !.agent = agent_name]
                /\ outbound' = Outbound(state)
                /\ del_pc' = "sending"
                /\ del_result' = NoneValue
                /\ UNCHANGED del_log
                /\ BeginSend("host", client.card, HostTaskCallback,
                             HostStreaming(client.card), <<>>)
    /\ UNCHANGED <<dirvars, mgmtvars, task_agent>>

(* tool_context.actions after the branch on the task state. *)
ActionsAfterTaskUnchanged(acts, task) == acts

ActionsAfterTask(acts, task) ==
    IF task.state = "input-required" THEN Escalated ELSE acts

(* The ValueError raised for the task state, Absent when none is. *)
TaskFailureCanceledOnly(task) ==
    IF task.state = "canceled" THEN "task cancelled" ELSE Absent

TaskFailure(task) ==
    IF task.state = "canceled" THEN "task cancelled"
    ELSE IF task.state = "failed" THEN "task failed"
    ELSE Absent

(* What send_message does with a Task. *)
AfterTask(task) ==
    LET st == StateAfterTask(state, task)
        acts == ActionsAfterTask(actions, task)
        fromMessage ==
            IF ~task.message.present
            THEN [ok |-> TRUE, values |-> <<>>, actions |-> acts]
            ELSE convert_parts(task.message.parts, [ok |-> TRUE, values |-> <<>>, actions |-> acts])
        converted == convert_artifacts(task.artifacts, fromMessage)
    IN  /\ state' = st
        /\ IF TaskFailure(task) # Absent
           THEN actions' = acts /\ del_result' = ErrorReturn(TaskFailure(task))
           ELSE /\ actions' = converted.actions
                /\ del_result' = IF converted.ok THEN ContentReturn(converted.values)
                                 ELSE ErrorReturn("conversion failed")

(* A Message branch that drops the task the conversation was bound to. *)
AfterMessageUpdatesState(message) ==
    LET converted == convert_parts(message.parts,
                                   [ok |-> TRUE, values |-> <<>>, actions |-> actions])
    IN  /\ state' = [state EXCEPT !.task_id = Absent]
        /\ actions' = converted.actions
        /\ del_result' = IF converted.ok THEN ContentReturn(converted.values)
                         ELSE ErrorReturn("conversion failed")

(* What send_message does with a Message. *)
AfterMessage(message) ==
    LET converted == convert_parts(message.parts,
                                   [ok |-> TRUE, values |-> <<>>, actions |-> actions])
    IN  /\ UNCHANGED state
        /\ actions' = converted.actions
        /\ del_result' = IF converted.ok THEN ContentReturn(converted.values)
                         ELSE ErrorReturn("conversion failed")

(* client.send_message has returned or raised: the rest of send_message. *)
DelegateResume ==
    /\ del_pc = "sending"
    /\ send_caller = "host"
    /\ send_pc \in {"returned", "raised"}
    /\ send_pc' = "done"
    /\ del_pc' = "returned"
    /\ IF send_pc = "raised"
       THEN /\ del_result' = ErrorReturn("transport error")
            /\ UNCHANGED <<state, actions>>
       ELSE IF send_result.kind = "message"
       THEN AfterMessage(send_result)
       ELSE IF send_result.kind = "task"
       THEN AfterTask(send_result)
       ELSE /\ del_result' = ErrorReturn("not a task")
            /\ UNCHANGED <<state, actions>>
    /\ del_log' = Append(del_log, del_result'.kind)
    /\ task_agent' = IF send_pc = "returned" /\ send_result.kind = "task"
                     THEN del_agent ELSE task_agent
    /\ UNCHANGED <<dirvars, mgmtvars, del_agent, outbound, send_caller, send_card,
                   send_callback, stream, consumed, send_task, send_result,
                   callback_log, request_log, calls_made>>

(* The tool result goes back to the decision collaborator. *)
DelegateDone ==
    /\ del_pc = "returned"
    /\ del_pc' = "idle"
    /\ del_result' = NoneValue
    /\ EndSend
    /\ UNCHANGED <<dirvars, mgmtvars, convvars, del_agent, outbound, del_log,
                   task_agent>>

(* ------------------- HostAgent.before_model_callback ------------------- *)
HISTORY_LENGTH == 3
MaxHistory == 9

Roles == {"user", "model"}
Histories == SeqsUpTo(Roles, MaxHistory)

Min(a, b) == IF a < b THEN a ELSE b

(* A callback that leaves llm_request.contents alone. *)
before_model_callbackKeepsAll(cs) == cs

(* A callback that keeps the last 2 * HISTORY_LENGTH entries. *)
before_model_callbackLastEntries(cs) ==
    IF Len(cs) <= 2 * HISTORY_LENGTH THEN cs
    ELSE SubSeq(cs, Len(cs) - 2 * HISTORY_LENGTH + 1, Len(cs))

(* llm_request.contents after the callback. *)
before_model_callback(cs) ==
    LET n == Len(cs)
    IN  IF n = 0 THEN cs
        ELSE IF n % 2 = 0 THEN cs
        ELSE LET num_turns == (n - 1) \div 2
                 keep_turns == Min(HISTORY_LENGTH, num_turns)
                 start_idx == (num_turns - keep_turns) * 2
             IN  IF start_idx > 0 THEN SubSeq(cs, start_idx + 1, n) ELSE cs

(* The model is called with the request the callback has been through. *)
BeforeModel ==
    /\ hist_pc = "built"
    /\ llm_contents' = before_model_callback(contents)
    /\ hist_pc' = "called"
    /\ UNCHANGED <<dirvars, lockvars, reqvars, taskvars, convvars, delvars, sendvars,
                   envvars, sessvars, turnvars, contents>>

(* ------------- LimitedContextGetSessionService.get_session ------------- *)
MaxCap == 10
MaxLimit == 12

(* GetSessionConfig: config None, a config whose num_recent_events is      *)
(* None, a config with num_recent_events.                                  *)
NoConfig == [given |-> FALSE, has_limit |-> FALSE, num_recent_events |-> 0]
ConfigWithoutLimit == [given |-> TRUE, has_limit |-> FALSE, num_recent_events |-> 0]
ConfigWithLimit(k) == [given |-> TRUE, has_limit |-> TRUE, num_recent_events |-> k]
Configs == {NoConfig, ConfigWithoutLimit} \cup {ConfigWithLimit(k) : k \in 0..MaxLimit}

(* A service that passes the caller's limit on as it is. *)
get_sessionPassesLimit(config, cap) ==
    IF ~config.given \/ ~config.has_limit THEN ConfigWithLimit(cap) ELSE config

(* effective_config, as passed to InMemorySessionService.get_session. *)
get_session(config, cap) ==
    IF ~config.given THEN ConfigWithLimit(cap)
    ELSE IF ~config.has_limit THEN ConfigWithLimit(cap)
    ELSE IF config.num_recent_events > cap THEN ConfigWithLimit(cap)
    ELSE config

GetSession ==
    /\ session_pc = "called"
    /\ store_config' = get_session(session_config, session_cap)
    /\ session_pc' = "passed"
    /\ UNCHANGED <<dirvars, lockvars, reqvars, taskvars, convvars, delvars, sendvars,
                   envvars, histvars, turnvars, session_cap, session_config>>

(* ---------------- the turn: stream and MyAgentExecutor ----------------- *)
MaxRunEvents == 3

(* Events of Runner.run_async: not final, or final with text, with a       *)
(* function response whose response holds a result list ("form"), with     *)
(* another function response ("dict"), or with neither ("empty").          *)
NoResult == <<>>
ResultLists == {<<>>, <<"r1">>, <<"r1", "r2">>}
RunEvents ==
    [final : {FALSE}, kind : {"text"}, result : {NoResult}]
        \cup [final : {TRUE}, kind : {"text", "dict", "empty"}, result : {NoResult}]
        \cup [final : {TRUE}, kind : {"form"}, result : ResultLists]
Runs == SeqsUpTo(RunEvents, MaxRunEvents)

(* The dictionaries the streams yield. *)
ProcessingItem == [is_task_complete |-> FALSE, content |-> "processing", result |-> NoResult]
CompleteItem(content, result) ==
    [is_task_complete |-> TRUE, content |-> content, result |-> result]

(* response of RouterAgent.stream for a final event: '' unless the event   *)
(* has text or a function response.                                        *)
EmptyResponse == ""

(* AgentEvolution.stream: is_task_complete only if response is truthy. *)
AgentItem(event) ==
    IF ~event.final THEN ProcessingItem
    ELSE IF event.kind = "empty" THEN ProcessingItem
    ELSE CompleteItem(event.kind, event.result)

(* RouterAgent.stream: every final event is yielded as complete. *)
RouterItem(event) ==
    IF ~event.final THEN ProcessingItem
    ELSE IF event.kind = "empty" THEN CompleteItem(EmptyResponse, NoResult)
    ELSE CompleteItem(event.kind, event.result)

StreamItem(which, event) ==
    IF which = "router" THEN RouterItem(event) ELSE AgentItem(event)

(* What TaskUpdater and the event queue receive. *)
TaskCreated == [kind |-> "task", state |-> "submitted", final |-> FALSE, payload |-> "message"]
StatusUpdate(st, final, payload) ==
    [kind |-> "status", state |-> st, final |-> final, payload |-> payload]
ArtifactUpdate(text) ==
    [kind |-> "artifact", state |-> "form", final |-> FALSE, payload |-> text]

InputRequiredUpdatesOnce(result) ==
    IF result = <<>> THEN <<>>
    ELSE <<StatusUpdate("input-required", TRUE, Head(result))>>

RECURSIVE InputRequiredUpdates(_)
InputRequiredUpdates(result) ==
    IF result = <<>> THEN <<>>
    ELSE <<StatusUpdate("input-required", TRUE, Head(result))>>
             \o InputRequiredUpdates(Tail(result))

(* The branches of execute's loop body. *)
WorkingUpdateDropped(item) == <<>>

WorkingUpdate(item) == <<StatusUpdate("working", FALSE, item.content)>>

FailedUpdateThenComplete ==
    <<StatusUpdate("failed", TRUE, "Reaching an unexpected state"),
      StatusUpdate("completed", TRUE, "none")>>

FailedUpdate == <<StatusUpdate("failed", TRUE, "Reaching an unexpected state")>>

FormArtifactCompletesFirst(item) ==
    <<StatusUpdate("completed", TRUE, "none"), ArtifactUpdate(item.content)>>

FormArtifact(item) ==
    <<ArtifactUpdate(item.content), StatusUpdate("completed", TRUE, "none")>>

(* The body of execute's loop for one item. *)
Publish(item) ==
    IF ~item.is_task_complete
    THEN WorkingUpdate(item)
    ELSE IF item.content = "form"
    THEN InputRequiredUpdates(item.result)
    ELSE IF item.content = "dict"
    THEN FailedUpdate
    ELSE FormArtifact(item)

(* The task execute creates and enqueues when the request carries none. *)
TaskEventsAlways(task_given) == <<TaskCreated>>

TaskEvents(task_given) == IF task_given THEN <<>> ELSE <<TaskCreated>>

(* The items AgentEvolution.stream ends with on a timeout and on any       *)
(* other exception of the run.                                             *)
TimedOutItem == CompleteItem("Agent timed out while processing request", NoResult)
ErrorItem == CompleteItem("Agent error", NoResult)

(* execute until its loop: the task is created when the request has none,  *)
(* then the stream is entered.                                             *)
ExecuteStart ==
    /\ exec_pc = "start"
    /\ published' = published \o TaskEvents(has_task)
    /\ exec_pc' = "lookup"
    /\ UNCHANGED <<dirvars, lockvars, reqvars, taskvars, convvars, delvars, sendvars,
                   envvars, histvars, sessvars, orchestrator, run_events, run_idx,
                   yielded, has_task, turn_fault, cancel_error>>

(* stream before its loop: the session is fetched, or created if absent. *)
SessionReady ==
    /\ exec_pc = "lookup"
    /\ exec_pc' = "running"
    /\ UNCHANGED <<dirvars, lockvars, reqvars, taskvars, convvars, delvars, sendvars,
                   envvars, histvars, sessvars, orchestrator, run_events, run_idx,
                   yielded, has_task, published, turn_fault, cancel_error>>

(* get_session or create_session raises: the calls stand before any try,   *)
(* in both streams, so the exception leaves the generator.                 *)
SessionLookupRaises ==
    /\ exec_pc = "lookup"
    /\ turn_fault' = "lookup"
    /\ exec_pc' = "raised"
    /\ UNCHANGED <<dirvars, lockvars, reqvars, taskvars, convvars, delvars, sendvars,
                   envvars, histvars, sessvars, orchestrator, run_events, run_idx,
                   yielded, has_task, published, cancel_error>>

(* run_async raises: AgentEvolution.stream catches it and yields the error *)
(* item; RouterAgent.stream has no handler and execute has none either.    *)
RunnerRaises ==
    /\ exec_pc = "running"
    /\ turn_fault' = "collaborator"
    /\ IF orchestrator = "agent"
       THEN /\ yielded' = Append(yielded, ErrorItem)
            /\ exec_pc' = "done"
       ELSE /\ exec_pc' = "raised"
            /\ UNCHANGED yielded
    /\ UNCHANGED <<dirvars, lockvars, reqvars, taskvars, convvars, delvars, sendvars,
                   envvars, histvars, sessvars, orchestrator, run_events, run_idx,
                   has_task, published, cancel_error>>

(* The turn has run for STREAM_TIMEOUT seconds: asyncio.timeout ends the   *)
(* loop of AgentEvolution.stream, which yields the timed-out item;         *)
(* RouterAgent.stream sets no timer and goes on.                           *)
STREAM_TIMEOUT == 300

BudgetExceeded ==
    /\ exec_pc = "running"
    /\ turn_fault = "none"
    /\ turn_fault' = "timeout"
    /\ IF orchestrator = "agent"
       THEN /\ yielded' = Append(yielded, TimedOutItem)
            /\ exec_pc' = "done"
       ELSE UNCHANGED <<yielded, exec_pc>>
    /\ UNCHANGED <<dirvars, lockvars, reqvars, taskvars, convvars, delvars, sendvars,
                   envvars, histvars, sessvars, orchestrator, run_events, run_idx,
                   has_task, published, cancel_error>>

(* MyAgentExecutor.cancel: raises, whatever the request and the task. *)
UnsupportedOperationError == "UnsupportedOperationError"

CancelSilently ==
    /\ orchestrator = "router"
    /\ cancel_error = "none"
    /\ cancel_error' = "returned"
    /\ UNCHANGED <<dirvars, lockvars, reqvars, taskvars, convvars, delvars, sendvars,
                   envvars, histvars, sessvars, orchestrator, run_events, run_idx,
                   yielded, has_task, published, exec_pc, turn_fault>>

Cancel ==
    /\ orchestrator = "router"
    /\ cancel_error = "none"
    /\ cancel_error' = UnsupportedOperationError
    /\ UNCHANGED <<dirvars, lockvars, reqvars, taskvars, convvars, delvars, sendvars,
                   envvars, histvars, sessvars, orchestrator, run_events, run_idx,
                   yielded, has_task, published, exec_pc, turn_fault>>

(* A loop body without break. *)
TurnEventWithoutBreak ==
    /\ exec_pc = "running"
    /\ run_idx < Len(run_events)
    /\ run_idx' = run_idx + 1
    /\ LET item == StreamItem(orchestrator, run_events[run_idx + 1])
       IN  /\ yielded' = Append(yielded, item)
           /\ IF orchestrator = "router"
              THEN /\ published' = published \o Publish(item)
                   /\ exec_pc' = "running"
              ELSE UNCHANGED <<published, exec_pc>>
    /\ UNCHANGED <<dirvars, lockvars, reqvars, taskvars, convvars, delvars, sendvars,
                   envvars, histvars, sessvars, orchestrator, run_events, has_task,
                   turn_fault, cancel_error>>

(* The runner yields an event: the stream yields its item and, in the      *)
(* router, execute's loop body runs on it; a complete item ends the loop.  *)
TurnEvent ==
    /\ exec_pc = "running"
    /\ run_idx < Len(run_events)
    /\ run_idx' = run_idx + 1
    /\ LET item == StreamItem(orchestrator, run_events[run_idx + 1])
       IN  /\ yielded' = Append(yielded, item)
           /\ IF orchestrator = "router"
              THEN /\ published' = published \o Publish(item)
                   /\ exec_pc' = IF item.is_task_complete THEN "done" ELSE "running"
              ELSE UNCHANGED <<published, exec_pc>>
    /\ UNCHANGED <<dirvars, lockvars, reqvars, taskvars, convvars, delvars, sendvars,
                   envvars, histvars, sessvars, orchestrator, run_events, has_task,
                   turn_fault, cancel_error>>

(* The runner has no more events: the stream ends and its reader returns. *)
TurnEnd ==
    /\ exec_pc = "running"
    /\ run_idx = Len(run_events)
    /\ exec_pc' = "done"
    /\ UNCHANGED <<dirvars, lockvars, reqvars, taskvars, convvars, delvars, sendvars,
                   envvars, histvars, sessvars, orchestrator, run_events, run_idx,
                   yielded, has_task, published, turn_fault, cancel_error>>

(* ------------- the item stream yields, from the event's parts ---------- *)
MaxParts == 2

(* A content part: its text ('' when it has none) and its function         *)
(* response (absent when it has none).                                     *)
Parts == [text : {"", "x", "y"}, function_response : {Absent, "fr"}]
Events == [final : BOOLEAN, parts : SeqsUpTo(Parts, MaxParts)]

NoItem == [kind |-> "none", value |-> <<>>]
UpdatesItem == [kind |-> "updates", value |-> <<"processing">>]
ContentText(texts) == [kind |-> "text", value |-> texts]
ContentPayload(fr) == [kind |-> "payload", value |-> <<fr>>]
RaisedInStream == [kind |-> "raised", value |-> <<>>]

(* '\n'.join([p.text for p in parts if p.text]), as the list it joins. *)
RECURSIVE JoinedText(_)
JoinedText(parts) ==
    IF parts = <<>> THEN <<>>
    ELSE (IF Head(parts).text # "" THEN <<Head(parts).text>> ELSE <<>>)
             \o JoinedText(Tail(parts))

HasText(parts) == \E i \in DOMAIN parts : parts[i].text # ""
HasFunctionResponse(parts) == \E i \in DOMAIN parts : parts[i].function_response # Absent
FirstFunctionResponse(parts) ==
    parts[CHOOSE i \in DOMAIN parts :
              /\ parts[i].function_response # Absent
              /\ \A j \in 1..(i - 1) : parts[j].function_response = Absent].function_response

(* AgentEvolution.stream on one event. *)
AgentStreamItem(event) ==
    IF ~event.final THEN UpdatesItem
    ELSE IF HasText(event.parts) THEN ContentText(JoinedText(event.parts))
    ELSE IF HasFunctionResponse(event.parts)
    THEN ContentPayload(FirstFunctionResponse(event.parts))
    ELSE UpdatesItem

(* RouterAgent.stream on one event: the text branch looks at parts[0]      *)
(* only, and next() takes the first part's function_response, which is     *)
(* None when that part has none: model_dump on it raises.                  *)
RouterStreamItem(event) ==
    IF ~event.final THEN UpdatesItem
    ELSE IF event.parts # <<>> /\ event.parts[1].text # ""
    THEN ContentText(JoinedText(event.parts))
    ELSE IF HasFunctionResponse(event.parts)
    THEN IF event.parts[1].function_response # Absent
         THEN ContentPayload(event.parts[1].function_response)
         ELSE RaisedInStream
    ELSE ContentText(<<>>)

(* The body of the stream's loop runs on the event. *)
YieldItem ==
    /\ stream_item = NoItem
    /\ stream_item' = IF orchestrator = "router" THEN RouterStreamItem(final_event)
                      ELSE AgentStreamItem(final_event)
    /\ UNCHANGED <<dirvars, lockvars, reqvars, taskvars, convvars, delvars, sendvars,
                   silent, final_event, ctxvars>>

ItemIdle ==
    /\ final_event = [final |-> FALSE, parts |-> <<>>]
    /\ stream_item = NoItem

(* No model call and no get_session call in progress; RouterAgent's cap. *)
RouterSessionCap == 3

TurnIdle ==
    /\ orchestrator = "router"
    /\ run_events = <<>>
    /\ run_idx = 0
    /\ yielded = <<>>
    /\ has_task = FALSE
    /\ published = <<>>
    /\ exec_pc = "idle"
    /\ turn_fault = "none"
    /\ cancel_error = "none"
    /\ ItemIdle

ContextIdle ==
    /\ contents = <<>>
    /\ llm_contents = <<>>
    /\ hist_pc = "idle"
    /\ session_cap = RouterSessionCap
    /\ session_config = NoConfig
    /\ store_config = NoConfig
    /\ session_pc = "idle"
    /\ TurnIdle

(* --------------------------- specification ----------------------------- *)
(* No conversation yet, no call in progress. *)
RouteIdle(st) ==
    /\ state = st
    /\ actions = NoActions
    /\ del_pc = "idle"
    /\ del_agent = Absent
    /\ del_result = NoneValue
    /\ outbound = Outbound(EmptyState)
    /\ del_log = <<>>
    /\ task_agent = Absent
    /\ send_pc = "idle"
    /\ send_caller = "direct"
    /\ send_card = CHOOSE c \in FetchCards : TRUE
    /\ send_callback = "none"
    /\ stream = <<>>
    /\ consumed = 0
    /\ send_task = NoneValue
    /\ send_result = NoneValue
    /\ callback_log = <<>>
    /\ request_log = <<>>
    /\ calls_made = 0

Init ==
    /\ remote_agent_connections = <<>>
    /\ cards = <<>>
    /\ remote_agent_addresses \in StartupAddresses
    /\ global_agents = <<>>
    /\ agent_lock = NoOne
    /\ lock_waiters = <<>>
    /\ pc = [p \in Procs |-> "idle"]
    /\ op = [p \in Procs |-> "none"]
    /\ arg = [p \in Procs |-> NoOne]
    /\ response = [p \in Procs |-> NoResponse]
    /\ ops_started = 0
    /\ task_pc = [t \in Tasks |-> "pending"]
    /\ task_idx = [t \in Tasks |-> 0]
    /\ task_address = [t \in Tasks |-> NoAddress]
    /\ RouteIdle(EmptyState)
    /\ silent = {}
    /\ ContextIdle

Next ==
    \/ \E p \in Procs : AddMissingAddress(p)
    \/ \E p \in Procs : AddInvalidBody(p)
    \/ \E p \in Procs, a \in Addrs : AddAgent(p, a)
    \/ \E p \in Procs, n \in Names : RemoveAgent(p, n)
    \/ \E p \in Procs, a \in Addrs : WaitForLock(p, "add", a)
    \/ \E p \in Procs, n \in Names : WaitForLock(p, "remove", n)
    \/ \E p \in Procs : AddAgentWake(p)
    \/ \E p \in Procs : RemoveAgentWake(p)
    \/ \E p \in Procs, c \in FetchCards : AddAgentFetched(p, c)
    \/ \E p \in Procs : AddAgentFetchFailed(p)
    \/ \E p \in Procs : ListAgents(p)
    \/ \E p \in Procs : Respond(p)
    \/ \E t \in Tasks : TaskStart(t)
    \/ \E t \in Tasks, c \in FetchCards : TaskFetched(t, c)
    \/ \E t \in Tasks : TaskFetchFailed(t)

Spec == Init /\ [][Next]_vars

(* The management surface once startup registration is over: the event     *)
(* loop runs every coroutine that can run, and a card fetch under way      *)
(* returns or fails.                                                       *)
InitManagement ==
    /\ remote_agent_connections = <<>>
    /\ cards = <<>>
    /\ remote_agent_addresses = <<>>
    /\ global_agents = <<>>
    /\ agent_lock = NoOne
    /\ lock_waiters = <<>>
    /\ pc = [p \in Procs |-> "idle"]
    /\ op = [p \in Procs |-> "none"]
    /\ arg = [p \in Procs |-> NoOne]
    /\ response = [p \in Procs |-> NoResponse]
    /\ ops_started = 0
    /\ task_pc = [t \in Tasks |-> "done"]
    /\ task_idx = [t \in Tasks |-> 0]
    /\ task_address = [t \in Tasks |-> NoAddress]
    /\ RouteIdle(EmptyState)
    /\ silent = {}
    /\ ContextIdle

FetchEnds(p) == (\E c \in FetchCards : AddAgentFetched(p, c)) \/ AddAgentFetchFailed(p)

NextManagement ==
    \/ \E p \in Procs : AddMissingAddress(p)
    \/ \E p \in Procs : AddInvalidBody(p)
    \/ \E p \in Procs, a \in Addrs : AddAgent(p, a)
    \/ \E p \in Procs, n \in Names : RemoveAgent(p, n)
    \/ \E p \in Procs, a \in Addrs : WaitForLock(p, "add", a)
    \/ \E p \in Procs, n \in Names : WaitForLock(p, "remove", n)
    \/ \E p \in Procs : AddAgentWake(p)
    \/ \E p \in Procs : RemoveAgentWake(p)
    \/ \E p \in Procs : FetchEnds(p)
    \/ \E p \in Procs : ListAgents(p)
    \/ \E p \in Procs : Respond(p)

SpecManagement ==
    /\ InitManagement
    /\ [][NextManagement]_vars
    /\ \A p \in Procs : WF_vars(AddAgentWake(p))
    /\ \A p \in Procs : WF_vars(RemoveAgentWake(p))
    /\ \A p \in Procs : WF_vars(FetchEnds(p))

(* Routing against a directory that holds one streaming-capable agent and  *)
(* one that is not; the management surface is quiet.                       *)
StreamingCard == [name |-> "n1", url |-> "a1", description |-> "d1", streaming |-> TRUE]
UnaryCard == [name |-> "n2", url |-> "a2", description |-> "d1", streaming |-> FALSE]

RoutingDirectory ==
    AddToDirectory(
        AddToDirectory([connections |-> <<>>, cards |-> <<>>, addresses |-> <<>>,
                        agents |-> <<>>], "a1", StreamingCard),
        "a2", UnaryCard)

InitRemotes(silences) ==
    /\ remote_agent_connections = RoutingDirectory.connections
    /\ cards = RoutingDirectory.cards
    /\ remote_agent_addresses = RoutingDirectory.addresses
    /\ global_agents = RoutingDirectory.agents
    /\ agent_lock = NoOne
    /\ lock_waiters = <<>>
    /\ pc = [p \in Procs |-> "idle"]
    /\ op = [p \in Procs |-> "none"]
    /\ arg = [p \in Procs |-> NoOne]
    /\ response = [p \in Procs |-> NoResponse]
    /\ ops_started = 0
    /\ task_pc = [t \in Tasks |-> "done"]
    /\ task_idx = [t \in Tasks |-> 0]
    /\ task_address = [t \in Tasks |-> NoAddress]
    /\ \E st \in {EmptyState, [EmptyState EXCEPT !.message_id = "m1"]} : RouteIdle(st)
    /\ silent \in silences
    /\ ContextIdle

(* Every remote answers. *)
InitSend == InitRemotes({{}})

(* At least one of the remotes accepts requests and never answers them. *)
InitSilent == InitRemotes(SUBSET Names \ {{}})

(* Calls made on a connection by a caller that chooses callback and mode. *)
NextConnection ==
    \/ \E c \in {StreamingCard, UnaryCard}, cb \in Callbacks, s \in BOOLEAN :
          DirectSend(c, cb, s)
    \/ StreamEvent
    \/ StreamEnd
    \/ \E r \in UnaryResponses : UnaryResponse(r)
    \/ SendRaises
    \/ DirectReturn

SpecConnection == InitSend /\ [][NextConnection]_vars

(* Delegate calls of one conversation, one after the other. *)
NextDelegate ==
    \/ \E n \in Names \cup {UnknownName} : Delegate(n)
    \/ \E r \in UnaryResponses : UnaryResponse(r)
    \/ SendRaises
    \/ DelegateResume
    \/ DelegateDone

SpecDelegate == InitSend /\ [][NextDelegate]_vars

(* Delegate calls of one conversation while agents are removed through    *)
(* the management surface; the remotes answer with an error, a Message or  *)
(* a task that is working or completed.                                    *)
SharedResponses ==
    {ErrorValue, [kind |-> "message", parts |-> <<"text">>]}
        \cup {t \in TaskValues : /\ t.id = "t1"
                                 /\ t.contextId = "c1"
                                 /\ t.state \in {"working", "completed"}
                                 /\ t.message = NoMessage
                                 /\ t.artifacts = <<>>}

NextShared ==
    \/ \E n \in Names \cup {UnknownName} : Delegate(n)
    \/ \E r \in SharedResponses : UnaryResponse(r)
    \/ SendRaises
    \/ DelegateResume
    \/ DelegateDone
    \/ \E n \in Names : RemoveAgent("r1", n)
    \/ Respond("r1")

SpecShared == InitSend /\ [][NextShared]_vars

(* Delegate calls with silent remotes. The 60 s timeout of the unary       *)
(* request expires unless the answer comes first, and the event loop       *)
(* resumes the coroutine that awaits the send.                             *)
SpecTimeout ==
    /\ InitSilent
    /\ [][NextDelegate]_vars
    /\ WF_vars(SendRaises)
    /\ WF_vars(DelegateResume)

(* Everything but the context of the model call, at rest. *)
RestIdle ==
    /\ remote_agent_connections = RoutingDirectory.connections
    /\ cards = RoutingDirectory.cards
    /\ remote_agent_addresses = RoutingDirectory.addresses
    /\ global_agents = RoutingDirectory.agents
    /\ agent_lock = NoOne
    /\ lock_waiters = <<>>
    /\ pc = [p \in Procs |-> "idle"]
    /\ op = [p \in Procs |-> "none"]
    /\ arg = [p \in Procs |-> NoOne]
    /\ response = [p \in Procs |-> NoResponse]
    /\ ops_started = 0
    /\ task_pc = [t \in Tasks |-> "done"]
    /\ task_idx = [t \in Tasks |-> 0]
    /\ task_address = [t \in Tasks |-> NoAddress]
    /\ RouteIdle(EmptyState)
    /\ silent = {}

(* The callback on every request contents up to MaxHistory entries. *)
InitHistory ==
    /\ RestIdle
    /\ contents \in Histories
    /\ llm_contents = <<>>
    /\ hist_pc = "built"
    /\ session_cap = RouterSessionCap
    /\ session_config = NoConfig
    /\ store_config = NoConfig
    /\ session_pc = "idle"
    /\ TurnIdle

SpecHistory == InitHistory /\ [][BeforeModel]_vars

(* get_session on every cap and caller configuration within the bounds. *)
InitSession ==
    /\ RestIdle
    /\ contents = <<>>
    /\ llm_contents = <<>>
    /\ hist_pc = "idle"
    /\ session_cap \in 0..MaxCap
    /\ session_config \in Configs
    /\ store_config = NoConfig
    /\ session_pc = "called"
    /\ TurnIdle

SpecSession == InitSession /\ [][GetSession]_vars

(* One turn: the router's stream read by execute, with or without a task   *)
(* on the request, or the agent's stream read to its end.                  *)
InitTurn ==
    /\ RestIdle
    /\ contents = <<>>
    /\ llm_contents = <<>>
    /\ hist_pc = "idle"
    /\ session_cap = RouterSessionCap
    /\ session_config = NoConfig
    /\ store_config = NoConfig
    /\ session_pc = "idle"
    /\ run_events \in Runs
    /\ run_idx = 0
    /\ yielded = <<>>
    /\ published = <<>>
    /\ turn_fault = "none"
    /\ cancel_error = "none"
    /\ ItemIdle
    /\ \/ orchestrator = "router" /\ has_task \in BOOLEAN /\ exec_pc = "start"
       \/ orchestrator = "agent" /\ has_task = TRUE /\ exec_pc = "lookup"

NextTurn ==
    \/ ExecuteStart
    \/ SessionReady
    \/ SessionLookupRaises
    \/ TurnEvent
    \/ TurnEnd
    \/ RunnerRaises
    \/ BudgetExceeded
    \/ Cancel

SpecTurn == InitTurn /\ [][NextTurn]_vars

(* Either stream on every event of up to MaxParts parts. *)
InitItem ==
    /\ RestIdle
    /\ contents = <<>>
    /\ llm_contents = <<>>
    /\ hist_pc = "idle"
    /\ session_cap = RouterSessionCap
    /\ session_config = NoConfig
    /\ store_config = NoConfig
    /\ session_pc = "idle"
    /\ orchestrator \in {"router", "agent"}
    /\ run_events = <<>>
    /\ run_idx = 0
    /\ yielded = <<>>
    /\ has_task = FALSE
    /\ published = <<>>
    /\ exec_pc = "idle"
    /\ turn_fault = "none"
    /\ cancel_error = "none"
    /\ final_event \in Events
    /\ stream_item = NoItem

SpecItem == InitItem /\ [][YieldItem]_vars

(* ======================= directory properties ========================== *)
RegisteredCards == {cards[i][2] : i \in DOMAIN cards}
ConnectionNames == DictKeys(remote_agent_connections)
CardNames == DictKeys(cards)
ListedAddresses == Range(remote_agent_addresses)

(* Names of the registered agents whose card address is in the address list. *)
NamesAtListedAddresses == {c.name : c \in {x \in RegisteredCards : x.url \in ListedAddresses}}

(* No management request is inside add or remove, and the startup task     *)
(* ended without resolving any address: the directory is the work of       *)
(* completed add and remove calls alone.                                   *)
BetweenOperations ==
    /\ \A p \in Procs : pc[p] \in {"idle", "done"}
    /\ \A t \in Tasks : task_pc[t] = "done" /\ task_idx[t] = 0

(* p's add request enters the lock in this step. *)
AddEntersLock(p) ==
    \/ pc[p] = "idle" /\ op'[p] = "add" /\ arg'[p] \in Addrs /\ pc'[p] # "wait"
    \/ pc[p] = "wait" /\ op[p] = "add" /\ pc'[p] # "wait"

(* p's remove request enters the lock in this step. *)
RemoveEntersLock(p) ==
    \/ pc[p] = "idle" /\ op'[p] = "remove" /\ pc'[p] # "wait"
    \/ pc[p] = "wait" /\ op[p] = "remove" /\ pc'[p] # "wait"

(* C1: between management operations, the names in the connections map,   *)
(* the names in the cards map and the names of the agents whose address is *)
(* in the address list are the same set.                                   *)
C1_DirectoryLockstep ==
    BetweenOperations =>
        /\ ConnectionNames = CardNames
        /\ CardNames = NamesAtListedAddresses

(* C2: once the startup task has begun, no state shows a card without a   *)
(* connection, a connection without a card, or a listed address whose      *)
(* agent is in neither map.                                                *)
C2_NoInconsistentObservation ==
    (\A t \in Tasks : task_pc[t] # "pending") =>
        /\ ConnectionNames = CardNames
        /\ \A a \in ListedAddresses : \E c \in RegisteredCards : c.url = a

(* C3: an add whose address is in the address list when it enters the     *)
(* lock ends with the already-registered 400 response and changes none of  *)
(* the connections map, the cards map, the address list.                   *)
C3_DuplicateAddRejected ==
    [][\A p \in Procs :
         (AddEntersLock(p) /\ arg'[p] \in ListedAddresses) =>
             /\ pc'[p] = "done"
             /\ response'[p] = AlreadyRegistered
             /\ response'[p].status = 400
             /\ UNCHANGED dirvars]_vars

C3_Witness ==
    \E p \in Procs :
        /\ pc[p] = "done" /\ op[p] = "add"
        /\ response[p] = AlreadyRegistered
        /\ arg[p] \in ListedAddresses

(* State part of C4. *)
C4_LockState ==
    /\ Cardinality({p \in Procs : pc[p] = "add_fetch"}) <= 1
    /\ \A p \in Procs :
          pc[p] = "add_fetch" => agent_lock = p /\ arg[p] \notin ListedAddresses
    /\ \A a \in Addrs : Count(remote_agent_addresses, a) <= 1

(* Step part of C4. *)
C4_LockStep ==
    \A p, q \in Procs :
        (/\ p # q
         /\ op[p] = "add" /\ op[q] = "add" /\ arg[p] = arg[q]
         /\ pc[p] \in {"wait", "add_fetch"} /\ pc[q] \in {"wait", "add_fetch"}) =>
            /\ (pc[q] = "add_fetch" /\ pc'[q] = "done" /\ response'[q].status = 201) =>
                  /\ pc[p] = "wait" /\ pc'[p] = "wait"
                  /\ Count(remote_agent_addresses', arg[q]) = 1
            /\ (pc[p] = "wait" /\ pc'[p] # "wait" /\ arg[p] \in ListedAddresses) =>
                  /\ response'[p] = AlreadyRegistered
                  /\ Count(remote_agent_addresses', arg[p]) = 1

(* C4: at most one request is between the duplicate check and the         *)
(* registration, and the address it adds is not in the list meanwhile; no  *)
(* address is listed twice; when one of two in-flight adds of the same     *)
(* address registers it, the other is still queued, and it is rejected as  *)
(* already registered when it enters the lock with the address listed.     *)
C4_ConcurrentAddsRegisterOnce == [](C4_LockState) /\ [][C4_LockStep]_vars

C4_Witness ==
    \E p, q \in Procs :
        /\ p # q
        /\ op[p] = "add" /\ op[q] = "add" /\ arg[p] = arg[q]
        /\ pc[q] = "done" /\ response[q].status = 201
        /\ pc[p] = "wait" /\ Head(lock_waiters) = p
        /\ Count(remote_agent_addresses, arg[p]) = 1

(* C5: a remove whose name is not in the connections map when it enters   *)
(* the lock ends with the 404 not-found response, which is neither of the  *)
(* add errors, and changes nothing of the directory, summary included.     *)
C5_RemoveUnknownFailsClosed ==
    [][\A p \in Procs :
         (RemoveEntersLock(p) /\ arg'[p] \notin ConnectionNames) =>
             /\ pc'[p] = "done"
             /\ response'[p] = NotFound
             /\ response'[p].status = 404
             /\ response'[p].status \notin {AlreadyRegistered.status,
                                            CardResolutionFailed.status}
             /\ UNCHANGED dirvars]_vars

C5_Witness ==
    \E p \in Procs :
        /\ pc[p] = "done" /\ op[p] = "remove"
        /\ response[p] = NotFound
        /\ remote_agent_connections # <<>>

(* C6: from a directory where address X is not listed and no agent is     *)
(* named N, add(X) with a card named N followed by remove(N) gives back    *)
(* the connections, the cards, the address list and the listing, and X is  *)
(* not listed, so that it can be added again.                              *)
C6_AddThenRemoveRestores ==
    \A X \in Addrs \ ListedAddresses :
        \A c \in {x \in FetchCards : x.name \notin ConnectionNames} :
            LET d == remove_agent_card(AddToDirectory(Directory, X, c), c.name)
            IN  /\ d.connections = remote_agent_connections
                /\ d.cards = cards
                /\ d.addresses = remote_agent_addresses
                /\ list_remote_agents(d) = list_remote_agents(Directory)
                /\ X \notin Range(d.addresses)

(* C7: an add whose card fetch fails ends with the 502 response, not the  *)
(* 400 one, leaves the directory as it was, and its address is not listed. *)
C7_FetchFailureLeavesDirectory ==
    [][\A p \in Procs :
         (pc[p] = "add_fetch" /\ pc'[p] = "done" /\ response'[p].status # 201) =>
             /\ response'[p] = CardResolutionFailed
             /\ response'[p].status = 502
             /\ response'[p].status # AlreadyRegistered.status
             /\ UNCHANGED dirvars
             /\ arg[p] \notin Range(remote_agent_addresses')]_vars

C7_Witness ==
    \E p \in Procs :
        /\ pc[p] = "done" /\ op[p] = "add"
        /\ response[p] = CardResolutionFailed
        /\ arg[p] \notin ListedAddresses

NameCount(listing, name) == Cardinality({i \in DOMAIN listing : listing[i].name = name})

(* C8: registering a card leaves exactly one connection and one card      *)
(* under its name, both bound to that card, and the name once in the       *)
(* listing; a registered name keeps the maps' sizes; registering the same  *)
(* card again changes nothing.                                             *)
C8_RegisterReplaces ==
    \A c \in FetchCards :
        LET d == register_agent_card(Directory, c)
        IN  /\ KeyCount(d.connections, c.name) = 1
            /\ KeyCount(d.cards, c.name) = 1
            /\ DictGet(d.connections, c.name) = RemoteAgentConnections(c)
            /\ DictGet(d.cards, c.name) = c
            /\ NameCount(list_remote_agents(d), c.name) = 1
            /\ c.name \in CardNames => Len(d.cards) = Len(cards)
            /\ c.name \in ConnectionNames =>
                   Len(d.connections) = Len(remote_agent_connections)
            /\ register_agent_card(d, c) = d

C8_Witness ==
    \E p, q \in Procs :
        /\ p # q
        /\ pc[p] = "done" /\ pc[q] = "done"
        /\ response[p].status = 201 /\ response[q].status = 201
        /\ response[p].name = response[q].name
        /\ arg[p] # arg[q]
        /\ KeyCount(remote_agent_connections, response[p].name) = 1
        /\ KeyCount(cards, response[p].name) = 1

(* ======================== routing properties =========================== *)
(* Position of the first final-flagged event, or the stream's length. *)
FinalIndex(events) ==
    IF \E i \in DOMAIN events : IsFinal(events[i])
    THEN CHOOSE i \in DOMAIN events :
             IsFinal(events[i]) /\ \A j \in 1..(i - 1) : ~IsFinal(events[j])
    ELSE Len(events)

(* Up to its first final-flagged event the stream holds task events only. *)
TaskEventsOnly(events) ==
    \A i \in 1..FinalIndex(events) : events[i].kind \in {"task", "status"}

(* C9: a streamed send over task events has, when it returns, consumed    *)
(* the events up to the first final-flagged one (all of them when none is  *)
(* final), handed each of them to the callback in order, and returns the   *)
(* snapshot of the last one.                                               *)
C9_StreamedSendReturnsLastSnapshot ==
    (send_pc = "returned" /\ request_log = <<"stream">> /\ TaskEventsOnly(stream)) =>
        /\ consumed = FinalIndex(stream)
        /\ callback_log = [i \in 1..consumed |-> i]
        /\ consumed >= 1 => send_result = Snapshot(consumed)

(* C10: the request of a delegate call is the streamed exchange exactly   *)
(* when the target's card declares streaming.                              *)
C10_StreamingFollowsCapability ==
    (del_pc = "sending" /\ send_caller = "host") =>
        (request_log = <<"stream">>
            <=> DictGet(remote_agent_connections, del_agent).card.streaming)

(* A delegate call has returned after the remote answered with value kind k. *)
ReturnedAfter(k) ==
    del_pc = "returned" /\ send_pc = "done" /\ send_result.kind = k

(* The content parts of a task: its status message's, then each artifact's. *)
RECURSIVE Flatten(_)
Flatten(lists) == IF lists = <<>> THEN <<>> ELSE Head(lists) \o Flatten(Tail(lists))

TaskParts(task) ==
    (IF task.message.present THEN task.message.parts ELSE <<>>) \o Flatten(task.artifacts)

(* Every part of the list can be converted. *)
Convertible(parts) == \A i \in DOMAIN parts : parts[i] # "badfile"

(* C11: when a delegate call has returned after the remote answered with  *)
(* a task, session_active is true exactly when the task state is none of   *)
(* completed, canceled, failed, unknown; task_id is the task's id; and     *)
(* context_id is the task's context id when it has one and otherwise the   *)
(* value it had when the request was built.                                *)
C11_StateFollowsTask ==
    ReturnedAfter("task") =>
        /\ state.session_active =
              (send_result.state \notin {"completed", "canceled", "failed", "unknown"})
        /\ state.task_id = send_result.id
        /\ state.context_id = IF send_result.contextId # Absent
                              THEN send_result.contextId
                              ELSE outbound.contextId

C11_Witness ==
    /\ ReturnedAfter("task")
    /\ send_result.contextId = Absent
    /\ send_result.state = "working"
    /\ state.context_id = "c1"
    /\ state.session_active = TRUE

(* C12: when a delegate call has returned after the remote answered with  *)
(* a task in input-required state, both flags are set, session_active is   *)
(* true, and the result is the content list, one entry per part of the     *)
(* task, not an error value.                                               *)
C12_InputRequiredEscalates ==
    (ReturnedAfter("task") /\ send_result.state = "input-required") =>
        /\ actions.skip_summarization /\ actions.escalate
        /\ state.session_active = TRUE
        /\ del_result.kind = "content"
        /\ Len(del_result.parts) = Len(TaskParts(send_result))

(* C12 as amended: the flags and session_active as stated; the content    *)
(* list is returned when every part converts, an error value when one      *)
(* does not.                                                               *)
C12_InputRequiredEscalatesOrFails ==
    (ReturnedAfter("task") /\ send_result.state = "input-required") =>
        /\ actions.skip_summarization /\ actions.escalate
        /\ state.session_active = TRUE
        /\ IF Convertible(TaskParts(send_result))
           THEN /\ del_result.kind = "content"
                /\ Len(del_result.parts) = Len(TaskParts(send_result))
           ELSE del_result.kind = "error"

C12_Witness ==
    /\ ReturnedAfter("task")
    /\ send_result.state = "input-required"
    /\ send_result.message = StatusMessage(<<"text">>)
    /\ send_result.artifacts = <<<<"data">>>>
    /\ del_result = ContentReturn(<<"text", "data">>)
    /\ actions = Escalated

(* C13: when a delegate call has returned after the remote answered with  *)
(* a failed or canceled task, the result is an error value, never a        *)
(* content list, and the state holds that task's id and session_active     *)
(* false.                                                                  *)
C13_FailedTaskEndsInError ==
    (ReturnedAfter("task") /\ send_result.state \in {"failed", "canceled"}) =>
        /\ del_result.kind = "error"
        /\ state.task_id = send_result.id
        /\ state.session_active = FALSE

C13_Witness ==
    /\ ReturnedAfter("task")
    /\ send_result.state = "failed"
    /\ send_result.id = "t2"
    /\ outbound.taskId = "t1"
    /\ state.task_id = "t2"
    /\ del_result = ErrorReturn("task failed")

(* The call in progress hit one of the failures of a delegation. *)
DelegationFailed ==
    \/ del_agent \notin ConnectionNames
    \/ ReturnedAfter("none")
    \/ ReturnedAfter("error")
    \/ ReturnedAfter("task") /\ send_result.state \in {"failed", "canceled"}
    \/ ReturnedAfter("task") /\ ~Convertible(TaskParts(send_result))
    \/ ReturnedAfter("message") /\ ~Convertible(send_result.parts)

(* State part of C14. *)
C14_ErrorState ==
    /\ del_pc = "returned" => del_result.kind \in {"error", "content"}
    /\ (del_pc = "returned" /\ DelegationFailed) => del_result.kind = "error"
    /\ Len(del_log) = calls_made - (IF del_pc = "sending" THEN 1 ELSE 0)

(* Step part of C14. *)
C14_ErrorStep ==
    (del_pc = "returned" /\ del_result.kind = "error" /\ del_pc' # "returned") =>
        /\ del_pc' = "idle" /\ send_pc' = "idle"
        /\ state' = state

(* C14: every delegate call ends with a value returned, an error value    *)
(* when the agent is unknown, the send raised, the remote answered with an *)
(* error envelope or a canceled or failed task, or a part did not          *)
(* convert; after an error value the router is idle again with the         *)
(* conversation state as the call left it.                                 *)
C14_DelegateNeverRaises == [](C14_ErrorState) /\ [][C14_ErrorStep]_vars

C14_Witness ==
    /\ del_log = <<"error", "content">>
    /\ del_pc = "returned"
    /\ ReturnedAfter("task")
    /\ outbound.taskId = Absent

(* A delegate call continues in this step with the remote's Message. *)
MessageStep ==
    /\ del_pc = "sending" /\ send_pc = "returned" /\ send_result.kind = "message"
    /\ del_pc' = "returned"

StateKept ==
    /\ state'.task_id = state.task_id /\ state.task_id = outbound.taskId
    /\ state'.context_id = state.context_id /\ state.context_id = outbound.contextId
    /\ state'.session_active = state.session_active

(* C15: a delegate call answered with a Message returns the content list, *)
(* one entry per part, and task_id, context_id and session_active keep the *)
(* values they had before the call.                                        *)
C15_MessageLeavesState ==
    [][MessageStep =>
          /\ del_result'.kind = "content"
          /\ Len(del_result'.parts) = Len(send_result.parts)
          /\ StateKept]_vars

(* C15 as amended: the three fields keep their values; the content list   *)
(* is returned when every part converts, an error value when one does not. *)
C15_MessageLeavesStateOrFails ==
    [][MessageStep =>
          /\ StateKept
          /\ IF Convertible(send_result.parts)
             THEN /\ del_result'.kind = "content"
                  /\ Len(del_result'.parts) = Len(send_result.parts)
             ELSE del_result'.kind = "error"]_vars

C15_Witness ==
    /\ ReturnedAfter("message")
    /\ send_result.parts = <<"data", "text">>
    /\ del_result = ContentReturn(<<"data", "text">>)
    /\ state.task_id = "t1" /\ state.context_id = "c1" /\ state.session_active = TRUE

(* State part of C16. *)
C16_OneRequest ==
    /\ Len(request_log) <= 1
    /\ (del_pc = "sending" \/ (del_pc = "returned" /\ send_pc = "done")) =>
           Len(request_log) = 1
    /\ del_agent \notin ConnectionNames => request_log = <<>>

(* Step part of C16. *)
C16_NoResend ==
    (del_pc # "idle" /\ del_pc' # "idle") => request_log' = request_log

(* C16: a delegate call has at most one request on its connection: one    *)
(* from the moment it is sent until the call is over, none for an unknown  *)
(* agent; no step of a call in progress, whatever the outcome of the       *)
(* request, issues another.                                                *)
C16_AtMostOneRequest == [](C16_OneRequest) /\ [][C16_NoResend]_vars

C16_Witness ==
    /\ del_pc = "returned" /\ send_pc = "done"
    /\ send_result = NoneValue
    /\ del_result = ErrorReturn("transport error")
    /\ request_log = <<"unary">>

(* The unary request of a delegate call is out to a remote that never answers. *)
AwaitingSilentRemote ==
    del_pc = "sending" /\ send_pc = "unary" /\ send_card.name \in silent

(* C17: the unary request of a delegate call to a remote that never       *)
(* answers ends only by send_message raising, and it does end: the         *)
(* delegate call then returns an error value.                              *)
C17_SilentRemoteTimesOut ==
    /\ [][(AwaitingSilentRemote /\ send_pc' # "unary") => send_pc' = "raised"]_vars
    /\ AwaitingSilentRemote ~> (del_pc = "returned" /\ del_result.kind = "error")

C17_Witness ==
    /\ del_pc = "returned" /\ send_pc = "done"
    /\ del_agent \in silent
    /\ send_card.name = del_agent
    /\ del_result = ErrorReturn("transport error")

(* The last k entries of a list (all of them when it has fewer). *)
LastEntries(cs, k) ==
    IF Len(cs) <= k THEN cs ELSE SubSeq(cs, Len(cs) - k + 1, Len(cs))

IsOdd(n) == n % 2 = 1

(* C18: with a cap of 3 turns, an odd number of entries larger than 6 is  *)
(* cut to the last 6 entries before the model is called; an even number of *)
(* entries is passed on as it is.                                          *)
C18_TrimsToLastSix ==
    hist_pc = "called" =>
        /\ (IsOdd(Len(contents)) /\ Len(contents) > 6) =>
              llm_contents = LastEntries(contents, 6)
        /\ ~IsOdd(Len(contents)) => llm_contents = contents

(* C18 as amended: an odd number of entries is cut to the last 7 (3 turns *)
(* of 2 entries and the entry after them), so that up to 7 entries are     *)
(* passed on as they are; an even number is passed on as it is.            *)
C18_TrimsToLastSeven ==
    hist_pc = "called" =>
        /\ IsOdd(Len(contents)) => llm_contents = LastEntries(contents, 7)
        /\ ~IsOdd(Len(contents)) => llm_contents = contents

C18_Witness ==
    /\ hist_pc = "called"
    /\ Len(contents) = 9
    /\ contents[1] = "user" /\ contents[2] = "model" /\ contents[3] = "user"
    /\ Len(llm_contents) = 7
    /\ llm_contents[1] = "user"

(* C19: the config passed to the underlying store has num_recent_events   *)
(* set: to the cap when the caller gave no config or no limit, to the      *)
(* smaller of the caller's limit and the cap otherwise; it never exceeds   *)
(* the cap.                                                                *)
C19_SessionLimitCapped ==
    session_pc = "passed" =>
        /\ store_config.given /\ store_config.has_limit
        /\ (~session_config.given \/ ~session_config.has_limit) =>
              store_config.num_recent_events = session_cap
        /\ (session_config.given /\ session_config.has_limit) =>
              store_config.num_recent_events =
                  (IF session_config.num_recent_events <= session_cap
                   THEN session_config.num_recent_events ELSE session_cap)
        /\ store_config.num_recent_events <= session_cap

C19_Witness ==
    /\ session_pc = "passed"
    /\ session_cap = 3
    /\ session_config = ConfigWithLimit(10)
    /\ store_config = ConfigWithLimit(3)

(* C20: the item the stream yields for a final event that has neither     *)
(* text nor a function response is a processing update, not a completion,  *)
(* and no completed artifact is published for an empty answer.             *)
C20_EmptyFinalNotComplete ==
    /\ \A i \in 1..run_idx :
          (run_events[i].final /\ run_events[i].kind = "empty") =>
              /\ ~yielded[i].is_task_complete
              /\ yielded[i] = ProcessingItem
    /\ \A j \in 1..Len(published) :
          published[j].kind = "artifact" => published[j].payload = "text"

(* C21: stream never raises to its caller: a turn that exceeds its budget  *)
(* ends with the timed-out item, and a turn whose session lookup or whose  *)
(* run raised ends with the error item.                                    *)
LastYielded == yielded[Len(yielded)]

C21_StreamNeverRaises ==
    /\ exec_pc # "raised"
    /\ (turn_fault = "timeout" /\ exec_pc = "done") =>
           yielded # <<>> /\ LastYielded = TimedOutItem
    /\ turn_fault \in {"lookup", "collaborator"} =>
           exec_pc = "done" /\ yielded # <<>> /\ LastYielded = ErrorItem

(* What execute has published besides the task it created. *)
Executing == orchestrator = "router" /\ exec_pc # "start"
Offset == Len(TaskEvents(has_task))
TaskPositions == {j \in 1..Len(published) : published[j].kind = "task"}

(* C22: on a request without a task the created task is the first thing    *)
(* execute publishes and the only task event of the turn; on a request     *)
(* that carries a task no task event is published.                         *)
C22_TaskCreatedFirst ==
    Executing =>
        IF has_task
        THEN TaskPositions = {}
        ELSE /\ published # <<>>
             /\ published[1] = TaskCreated
             /\ TaskPositions = {1}

C22_Witness ==
    /\ Executing
    /\ ~has_task
    /\ exec_pc = "done"
    /\ Len(published) = 4
    /\ published[1] = TaskCreated
    /\ published[4].state = "completed"

(* The items execute read that were not complete, by position. *)
WorkingItems == {i \in 1..Len(yielded) : ~yielded[i].is_task_complete}
WorkingPositions == {j \in 1..Len(published) : published[j].state = "working"}

(* C23: each non-final event of the run that execute read gave one working *)
(* update with the item's progress text, the updates stand in the order of *)
(* the events, and every one of them precedes the terminal publication.    *)
C23_WorkingUpdatePerEvent ==
    Executing =>
        /\ \A i \in 1..run_idx : ~run_events[i].final => i \in WorkingItems
        /\ \A i \in WorkingItems :
              /\ Offset + i <= Len(published)
              /\ published[Offset + i] = StatusUpdate("working", FALSE, yielded[i].content)
        /\ WorkingPositions = {Offset + i : i \in WorkingItems}
        /\ \A j \in 1..Len(published) :
              published[j].final => \A w \in WorkingPositions : w < j

C23_Witness ==
    /\ Executing
    /\ exec_pc = "done"
    /\ run_idx = 3
    /\ WorkingItems = {1, 2}
    /\ WorkingPositions = {Offset + 1, Offset + 2}
    /\ published[Len(published)].state = "completed"

(* execute has read a complete item of the given content; what it          *)
(* published for that item stands after the working updates.               *)
Terminal(content) ==
    /\ Executing
    /\ yielded # <<>>
    /\ LastYielded.is_task_complete
    /\ LastYielded.content = content
TerminalUpdates == SubSeq(published, Offset + Len(yielded), Len(published))
TurnStopped == UNCHANGED <<run_idx, yielded, published, exec_pc>>

(* C24: a final event with response.result gives one input-required       *)
(* update flagged final per element of result, in list order, each         *)
(* carrying its element; after that execute reads no event and publishes   *)
(* nothing more.                                                           *)
C24_FormAsksOnce ==
    /\ [](Terminal("form") =>
             /\ exec_pc = "done"
             /\ Len(TerminalUpdates) = Len(LastYielded.result)
             /\ \A k \in 1..Len(LastYielded.result) :
                   TerminalUpdates[k] =
                       StatusUpdate("input-required", TRUE, LastYielded.result[k]))
    /\ [][Terminal("form") => TurnStopped]_vars

C24_Witness ==
    /\ Terminal("form")
    /\ LastYielded.result = <<"r1", "r2">>
    /\ TerminalUpdates = <<StatusUpdate("input-required", TRUE, "r1"),
                           StatusUpdate("input-required", TRUE, "r2")>>
    /\ run_idx < Len(run_events)

CompletedPositions == {j \in 1..Len(published) : published[j].state = "completed"}

(* C25: a final event whose payload is structured but has no               *)
(* response.result gives exactly one failed update flagged final with the  *)
(* fixed message; the task is never marked complete and execute reads no   *)
(* further event.                                                          *)
C25_OtherPayloadFails ==
    /\ [](Terminal("dict") =>
             /\ exec_pc = "done"
             /\ TerminalUpdates =
                    <<StatusUpdate("failed", TRUE, "Reaching an unexpected state")>>
             /\ CompletedPositions = {}
             /\ \A j \in 1..Len(published) : published[j].kind # "artifact")
    /\ [][Terminal("dict") => TurnStopped]_vars

C25_Witness ==
    /\ Terminal("dict")
    /\ Len(yielded) = 2
    /\ run_idx < Len(run_events)
    /\ published[Len(published)].state = "failed"

(* C26: a final event with plain text gives the artifact named 'form'      *)
(* holding the text and then one completion, in that order, and execute    *)
(* reads no further event.                                                 *)
C26_TextCompletesOnce ==
    /\ [](Terminal("text") =>
             /\ exec_pc = "done"
             /\ TerminalUpdates =
                    <<[kind |-> "artifact", state |-> "form", final |-> FALSE,
                       payload |-> "text"],
                      StatusUpdate("completed", TRUE, "none")>>
             /\ CompletedPositions = {Len(published)})
    /\ [][Terminal("text") => TurnStopped]_vars

C26_Witness ==
    /\ Terminal("text")
    /\ Len(yielded) = 2
    /\ run_idx < Len(run_events)
    /\ published[Len(published) - 1].kind = "artifact"
    /\ published[Len(published)].state = "completed"

(* C27: a call of cancel ends with the unsupported-operation error,        *)
(* whatever the position of the turn and whether or not the request has a  *)
(* task, and leaves what was published and the turn as they were.          *)
C27_CancelUnsupported ==
    /\ [](cancel_error \in {"none", UnsupportedOperationError})
    /\ [][cancel_error' # cancel_error =>
             /\ cancel_error' = UnsupportedOperationError
             /\ UNCHANGED <<published, has_task, exec_pc, run_idx, yielded,
                            turn_fault>>]_vars

C27_Witness ==
    /\ cancel_error = UnsupportedOperationError
    /\ exec_pc = "running"
    /\ has_task
    /\ published = <<StatusUpdate("working", FALSE, "processing")>>

(* A streamed send has returned on reading a Message event. *)
ReturnedOnMessage ==
    /\ request_log = <<"stream">>
    /\ send_pc = "returned"
    /\ consumed >= 1
    /\ stream[consumed].kind = "message"

(* C28: in a streamed send a Message event that is read ends the loop: it  *)
(* is the value returned, the callback is not called for it, no Message    *)
(* was read before it and no event is read after it.                       *)
C28_MessageEndsStream ==
    /\ [](send_pc = "stream" =>
             \A i \in 1..consumed : stream[i].kind # "message")
    /\ [](ReturnedOnMessage =>
             /\ send_result = [kind |-> "message", seq |-> consumed]
             /\ consumed \notin Range(callback_log)
             /\ callback_log = [i \in 1..(consumed - 1) |-> i]
                    \/ callback_log = <<>>
             /\ \A i \in 1..(consumed - 1) : stream[i].kind # "message")
    /\ [][ReturnedOnMessage => (consumed' = consumed \/ send_pc' = "idle")]_vars

C28_Witness ==
    /\ ReturnedOnMessage
    /\ send_callback # "none"
    /\ consumed = 2
    /\ Len(stream) = 3
    /\ callback_log = <<1>>
    /\ send_result.kind = "message"

(* A delegate call is made and names no key of remote_agent_connections. *)
UnknownAgentCall ==
    /\ del_pc = "idle"
    /\ del_pc' # "idle"
    /\ del_agent' \notin ConnectionNames

(* C29: a delegate call that names an agent without a connection returns   *)
(* the error value, sends no request, and leaves agent, task_id,           *)
(* context_id and session_active of the conversation state as they were.   *)
C29_UnknownAgentChangesNothing ==
    [][UnknownAgentCall =>
          /\ del_pc' = "returned"
          /\ del_result'.kind = "error"
          /\ request_log' = <<>>
          /\ send_pc' = "idle"
          /\ UNCHANGED <<request_log, outbound>>
          /\ state'.agent = state.agent
          /\ state'.task_id = state.task_id
          /\ state'.context_id = state.context_id
          /\ state'.session_active = state.session_active]_vars

C29_Witness ==
    /\ del_pc = "returned"
    /\ del_agent = UnknownName
    /\ del_result = ErrorReturn("agent not found")
    /\ state.agent = "n1"
    /\ state.task_id = "t1"
    /\ request_log = <<>>

(* The decision collaborator is about to be called: no tool call runs. *)
TurnBoundary == del_pc \in {"idle", "returned"}

(* C30: once a delegate call has returned a task, the preamble of every    *)
(* later model call names the agent that returned the conversation's task  *)
(* while that task is in a non-terminal state, and names no agent once a   *)
(* task has come back completed, failed, canceled or unknown.              *)
C30_StickyRouting ==
    (TurnBoundary /\ state.task_id # Absent) =>
        IF state.session_active
        THEN check_state(state) = task_agent
        ELSE check_state(state) = NoCurrentAgent

(* A delegate call resolves its connection and builds its request. *)
RequestBuilt == del_pc = "idle" /\ del_pc' = "sending"

(* C31: the Message of a delegate call has the task id and the context id  *)
(* the conversation state holds when the call is made, absent ones         *)
(* included, and the state's message id when there is one, a fresh one     *)
(* otherwise.                                                              *)
C31_RequestCarriesState ==
    [][RequestBuilt =>
          /\ outbound'.taskId = state.task_id
          /\ outbound'.contextId = state.context_id
          /\ outbound'.messageId =
                 (IF state.message_id # Absent THEN state.message_id ELSE "fresh")]_vars

C31_Witness ==
    /\ del_pc = "sending"
    /\ calls_made = 2
    /\ state.task_id = "t1"
    /\ state.context_id # Absent
    /\ outbound.taskId = "t1"
    /\ outbound.contextId = state.context_id
    /\ outbound.messageId = "fresh"

(* A delegate call starts; a step of a delegate call. *)
CallStarts == del_pc = "idle" /\ del_pc' # "idle"
DelegateStep == del_pc' # del_pc \/ send_pc' # send_pc
RemovedInFlight ==
    /\ del_agent \in Names
    /\ del_agent \notin ConnectionNames
    /\ send_caller = "host"

(* C32: a delegate call that starts while the named agent is out of the    *)
(* connections map, as it is once remove has returned, fails with agent    *)
(* not found; a call that had its connection when the agent was removed    *)
(* still ends with a content or an error value; and no step of a delegate  *)
(* call changes the connections map, the cards map, the address list or    *)
(* the summary.                                                            *)
C32_RemovalVisibleToRouting ==
    /\ [](del_pc = "returned" => del_result.kind \in {"content", "error"})
    /\ [][(CallStarts /\ del_agent' \notin ConnectionNames) =>
             /\ del_pc' = "returned"
             /\ del_result' = ErrorReturn("agent not found")
             /\ request_log' = <<>>]_vars
    /\ [][(CallStarts /\ \E p \in Procs : response[p] = AgentRemoved(del_agent')) =>
             del_result' = ErrorReturn("agent not found")]_vars
    /\ [][(CallStarts /\ del_agent' \in ConnectionNames) => del_pc' = "sending"]_vars
    /\ [][(del_pc = "sending" /\ RemovedInFlight /\ del_pc' # del_pc) =>
             del_pc' = "returned" /\ del_result'.kind \in {"content", "error"}]_vars
    /\ [][DelegateStep => UNCHANGED dirvars]_vars

C32_Witness ==
    /\ del_pc = "returned"
    /\ del_agent = "n1"
    /\ del_result = ErrorReturn("agent not found")
    /\ response["r1"] = AgentRemoved("n1")
    /\ del_log = <<"content", "error">>

(* The {name, description} pairs of the cards map, and the names the       *)
(* cached summary lists.                                                   *)
CardPairs ==
    {[name |-> cards[i][2].name, description |-> cards[i][2].description] :
        i \in DOMAIN cards}
SummaryNames == {global_agents[i].name : i \in DOMAIN global_agents}
SummaryExact ==
    /\ Range(global_agents) = CardPairs
    /\ Len(global_agents) = Cardinality(CardPairs)

(* An add or a remove ends with success, or a startup pass ends. *)
PassCompleted ==
    \/ \E p \in Procs : /\ pc[p] # "done"
                        /\ pc'[p] = "done"
                        /\ response'[p].status \in {200, 201}
                        /\ op'[p] \in {"add", "remove"}
    \/ \E t \in Tasks : task_pc[t] # "done" /\ task_pc'[t] = "done"

C33_SummaryAfterPass == [][PassCompleted => SummaryExact']_vars

(* C33: after every completed register, deregister or startup pass the     *)
(* cached summary lists exactly the {name, description} pairs of the cards *)
(* map, and the summary the preamble shows never names an agent that is    *)
(* not in the cards map and never omits one that is.                       *)
C33_SummaryMatchesCards ==
    /\ C33_SummaryAfterPass
    /\ [](SummaryNames = CardNames)

(* C34: for each event of the run the stream yields one item: the          *)
(* processing update for a non-final event, the non-empty texts joined for *)
(* a final event with text, and the function response's payload for a      *)
(* final event with a function response and no text.                       *)
C34_ItemPerEvent ==
    stream_item # NoItem =>
        /\ stream_item.kind # "raised"
        /\ ~final_event.final => stream_item = UpdatesItem
        /\ (final_event.final /\ HasText(final_event.parts)) =>
               stream_item = ContentText(JoinedText(final_event.parts))
        /\ (final_event.final /\ ~HasText(final_event.parts)
               /\ HasFunctionResponse(final_event.parts)) =>
               stream_item = ContentPayload("fr")

(* The number of entries the callback dropped from the front. *)
Dropped == Len(contents) - Len(llm_contents)

(* C35: what the callback passes on is a suffix of the history that ends   *)
(* with its newest entry and starts at an even index of it; for an odd     *)
(* number of entries the result has odd length and at most                 *)
(* 2 * HISTORY_LENGTH + 1 entries; the callback applied to its own result  *)
(* changes nothing.                                                        *)
C35_SuffixFromEvenIndex ==
    hist_pc = "called" =>
        /\ Dropped \in 0..Len(contents)
        /\ Dropped % 2 = 0
        /\ llm_contents = SubSeq(contents, Dropped + 1, Len(contents))
        /\ contents # <<>> =>
              /\ llm_contents # <<>>
              /\ llm_contents[Len(llm_contents)] = contents[Len(contents)]
        /\ IsOdd(Len(contents)) =>
              /\ Len(llm_contents) <= 2 * HISTORY_LENGTH + 1
              /\ IsOdd(Len(llm_contents))
        /\ before_model_callback(llm_contents) = llm_contents

C35_Witness ==
    /\ hist_pc = "called"
    /\ Len(contents) = 9
    /\ Dropped = 2
    /\ contents[9] = "user"
    /\ llm_contents[7] = "user"
    /\ contents[2] = "user" /\ contents[3] = "model"
    /\ llm_contents[1] = "model"

FinalPositions == {j \in 1..Len(published) : published[j].final}

(* C36: one execute call makes at most one publication flagged final, and  *)
(* publishes nothing after it.                                             *)
C36_OneFinalPublication ==
    Executing =>
        /\ Cardinality(FinalPositions) <= 1
        /\ \A j \in FinalPositions : j = Len(published)

(* C36 as amended: the publications flagged final are the last ones of the *)
(* call and are of one state; there is one of them, except that a payload  *)
(* with response.result gives one input-required update per element; once *)
(* a publication flagged final is made nothing more is published.          *)
C36_OneFinalBatch ==
    /\ [](Executing =>
             /\ \A j \in FinalPositions : \A k \in j..Len(published) :
                   published[k].final /\ published[k].state = published[j].state
             /\ Cardinality(FinalPositions) > 1 =>
                   /\ Terminal("form")
                   /\ Cardinality(FinalPositions) = Len(LastYielded.result)
                   /\ \A j \in FinalPositions : published[j].state = "input-required")
    /\ [][(Executing /\ FinalPositions # {}) => UNCHANGED published]_vars

C36_Witness ==
    /\ Executing
    /\ exec_pc = "done"
    /\ Cardinality(FinalPositions) = 2
    /\ FinalPositions = {Len(published) - 1, Len(published)}
    /\ Len(yielded) = 3

(* C37: when execute returns, a publication flagged final (completed,      *)
(* failed or input-required) has been made in the call.                    *)
C37_ReturnsWithOutcome ==
    (Executing /\ exec_pc = "done") => FinalPositions # {}

(* remove(n) has returned with success and its response is being delivered. *)
RemoveReturned(n) == \E p \in Procs : response[p] = AgentRemoved(n)

(* C38: a name whose removal has returned comes back into the connections  *)
(* map or the cards map only by an add that ends with success for a card   *)
(* of that name.                                                           *)
C38_RemovedStaysRemoved ==
    [][\A n \in Names :
          (/\ RemoveReturned(n)
           /\ n \notin ConnectionNames \cup CardNames
           /\ n \in ConnectionNames' \cup CardNames') =>
              \E q \in Procs : pc[q] = "add_fetch" /\ response'[q] = AgentAdded(n)]_vars

(* C39: while the conversation state holds a task id, its agent field      *)
(* names the agent that returned that task; so the request of a delegate   *)
(* call carries a task id only to the agent that issued it.                *)
C39_TaskBelongsToAgent ==
    /\ state.task_id # Absent => state.agent = task_agent
    /\ (del_pc = "sending" /\ outbound.taskId # Absent) => del_agent = task_agent

(* The lock is held by a request exactly while it awaits its card. *)
LockHeldInside ==
    /\ \A p \in Procs : agent_lock = p <=> pc[p] = "add_fetch"
    /\ agent_lock \in Procs \cup {NoOne}

(* C40: add and remove leave the lock on every exit, so it is held only by *)
(* an add that awaits its card; and a request that waits for the lock gets *)
(* it, given that the card fetch of the holder returns or fails.           *)
C40_LockReleasedOnEveryExit ==
    /\ [](LockHeldInside)
    /\ \A p \in Procs : (pc[p] = "wait") ~> (pc[p] # "wait")

C40_Witness ==
    /\ pc["r2"] = "add_fetch"
    /\ agent_lock = "r2"
    /\ pc["r1"] = "done"
    /\ response["r1"] = CardResolutionFailed
    /\ ops_started = 2

====
